---- MODULE Spec2Model ----
(***************************************************************************)
(* Mess-O-Meter food waste analysis (src/app.py).  The /analyze handler:    *)
(* one request's detector output is turned into food_counts,               *)
(* waste_analysis, food_details, user_insight and admin_insight by the     *)
(* helper functions of src/app.py, then enriched through                   *)
(* src/gemini_service.py and answered.  The /generate-ai-insights handler: *)
(* the feedback documents of a time range are aggregated, the averages     *)
(* calculated, insights requested from gemini_service, stored and returned.*)
(* /generate-weekly-summary, in src/app.py and in                          *)
(* src/mess-o-meter-backend/main.py: all feedback documents are counted by *)
(* meal and a summary is requested, stored and returned.  The attendance   *)
(* QR endpoints /qr/generate and /qr/{meal_type}.                          *)
(*                                                                         *)
(* Numbers.  Pixel coordinates are integers.  Python floats are modelled   *)
(* as exact rationals [n |-> numerator, d |-> denominator > 0]; a value    *)
(* that the code rounds to one decimal (round(x, 1)) is held as an integer *)
(* number of tenths (16.0 is 160), a detector confidence in [0, 1] as an   *)
(* integer number of 1/10000.  round() is Python's round-half-to-even; the *)
(* confidences of the inputs below lie off the rounding ties, where the    *)
(* binary value of the float, not its decimal, decides.                    *)
(* A bbox is the four-element list of FoodDetector.detect, so the tests    *)
(* "if plate_bbox" and "plate_bbox is not None" agree.                     *)
(***************************************************************************)
EXTENDS Integers, Sequences, FiniteSets, TLC

VARIABLES
    detections,      \* results["detections"]: the detector's ordered output
    image_shape,     \* results["image_shape"]: <<height, width>>
    food_counts,     \* ordered dict label -> count, as a sequence of <<label, count>>
    waste_analysis,  \* the record analyze_plate_coverage returned
    food_details,    \* the list generate_food_details returned
    user_insight,    \* the message generate_user_insight returned
    admin_insight,   \* the report generate_admin_insight returned
    pc,              \* the handler's position
    enabled,         \* gemini_service.enabled
    ai_user_insight, \* what gemini_service.generate_user_insight returned
    ai_admin_insight,\* what gemini_service.generate_admin_insight returned
    gemini_log,      \* the calls of gemini_service that ended, with how they ended
    response,        \* the HTTP response of the request, once sent
    feedback_docs,   \* the mealFeedback documents the range query streams
    time_range,      \* request.time_range
    cursor,          \* index of the next document of the stream
    aggregated_data, \* the aggregation of /generate-ai-insights
    insights,        \* what generate_structured_insights returned
    ai_summaries,    \* the writes to the aiSummaries collection, in order
    implementation,  \* which /generate-weekly-summary serves the request
    summary,         \* what the summary generator returned
    requests,        \* the /analyze requests in flight together, each with its locals
    qr_docs,         \* the adminAttendanceQR collection: document id -> document
    qr_clock,        \* time.time() in milliseconds
    qr_today,        \* the day datetime.now() falls on
    qr_calls,        \* the number of /qr calls the server has run
    qr_responses     \* the answers the /qr calls got

\* the state of the local analysis of /analyze
analysis_vars == <<detections, image_shape, food_counts, waste_analysis,
                   food_details, user_insight, admin_insight>>

\* the state of the enrichment of a request and its response
enrich_vars == <<enabled, ai_user_insight, ai_admin_insight, gemini_log,
                 response>>

\* the state of /generate-ai-insights
report_vars == <<feedback_docs, time_range, cursor, aggregated_data, insights,
                 ai_summaries>>

\* the state of /generate-weekly-summary beyond what it shares with the above
weekly_vars == <<implementation, summary>>

\* the state of the attendance QR endpoints
qr_vars == <<qr_docs, qr_clock, qr_today, qr_calls, qr_responses>>

\* what the handlers of one /analyze or /generate-ai-insights request leave alone
other_vars == <<weekly_vars, requests, qr_vars>>

vars == <<analysis_vars, pc, enrich_vars, report_vars, other_vars>>

\* Bounds of the model.
MaxDets == 3
MaxLabels == 5

\* A value not computed yet.
NotYet == <<>>

\* Python's None for plate_bbox (a bbox has four elements, so never equal).
NoBBox == <<>>

-----------------------------------------------------------------------------
(* Arithmetic helpers *)

Abs(n) == IF n < 0 THEN -n ELSE n

RECURSIVE GCD(_, _)
GCD(a, b) == IF b = 0 THEN a ELSE GCD(b, a % b)

\* the rational n/d (d > 0) in lowest terms, so that equal values are equal
\* records and the products of the comparisons stay small
Rat(n, d) ==
    LET g == GCD(Abs(n), d) IN [n |-> n \div g, d |-> d \div g]

\* x >= k for a rational x and an integer k
RatGE(x, k) == x.n >= k * x.d

\* x > k for a rational x and an integer k
RatGT(x, k) == x.n > k * x.d

\* x <= y for rationals
RatLE(x, y) == x.n * y.d <= y.n * x.d

\* floor of n/d for d > 0 (TLC's \div floors)
Floor(n, d) == n \div d

\* round(n/d) to an integer, ties to the even neighbour
RoundHalfEven(n, d) ==
    LET q == Floor(n, d)
        r == n - q * d
    IN  IF 2 * r < d THEN q
        ELSE IF 2 * r > d THEN q + 1
        ELSE IF q % 2 = 0 THEN q ELSE q + 1

\* round(x, 1), as a number of tenths
Round1(x) == RoundHalfEven(10 * x.n, x.d)

\* round(x), an integer
Round0(x) == RoundHalfEven(x.n, x.d)

\* str.lower() on the labels of the model
Lower(s) ==
    CASE s = "Plate" -> "plate"
      [] s = "PLATE" -> "plate"
      [] s = "plate" -> "plate"
      [] s = "Rice" -> "rice"
      [] s = "Roti" -> "roti"
      [] s = "Dal" -> "dal"
      [] s = "Paneer" -> "paneer"
      [] s = "Salad" -> "salad"
      [] s = "Lunch" -> "lunch"
      [] s = "DINNER" -> "dinner"
      [] OTHER -> s

-----------------------------------------------------------------------------
(* Helper functions of src/app.py *)

calculate_box_area(bbox) == (bbox[3] - bbox[1]) * (bbox[4] - bbox[2])

\* Mutant: the label is compared without lower(), so "Plate" is a food item.
RECURSIVE PartitionLoop_CaseSensitive(_, _, _)
PartitionLoop_CaseSensitive(dets, plate_bbox, food_items) ==
    IF dets = <<>>
    THEN [plate_bbox |-> plate_bbox, food_items |-> food_items]
    ELSE LET det == Head(dets)
         IN  IF det.class_name = "plate"
             THEN PartitionLoop_CaseSensitive(Tail(dets), det.bbox, food_items)
             ELSE PartitionLoop_CaseSensitive(Tail(dets), plate_bbox,
                                              Append(food_items, det))

\* Mutant: only the first plate-labelled detection sets plate_bbox.
RECURSIVE PartitionLoop_FirstPlate(_, _, _)
PartitionLoop_FirstPlate(dets, plate_bbox, food_items) ==
    IF dets = <<>>
    THEN [plate_bbox |-> plate_bbox, food_items |-> food_items]
    ELSE LET det == Head(dets)
         IN  IF Lower(det.class_name) = "plate"
             THEN PartitionLoop_FirstPlate(Tail(dets),
                    IF plate_bbox = NoBBox THEN det.bbox ELSE plate_bbox, food_items)
             ELSE PartitionLoop_FirstPlate(Tail(dets), plate_bbox,
                                           Append(food_items, det))

\* The loop of analyze_plate_coverage: every plate-labelled detection
\* overwrites plate_bbox, every other detection is appended to food_items.
RECURSIVE PartitionLoop(_, _, _)
PartitionLoop(dets, plate_bbox, food_items) ==
    IF dets = <<>>
    THEN [plate_bbox |-> plate_bbox, food_items |-> food_items]
    ELSE LET det == Head(dets)
         IN  IF Lower(det.class_name) = "plate"
             THEN PartitionLoop(Tail(dets), det.bbox, food_items)
             ELSE PartitionLoop(Tail(dets), plate_bbox, Append(food_items, det))

Partition(dets) == PartitionLoop(dets, NoBBox, <<>>)

\* plate_area: the detected plate's box area, or 70% of the image area
PlateArea(plate_bbox, shape) ==
    IF plate_bbox # NoBBox
    THEN Rat(calculate_box_area(plate_bbox), 1)
    ELSE Rat(7 * (shape[1] * shape[2]), 10)

RECURSIVE SumBoxes(_)
SumBoxes(B) ==
    IF B = {} THEN 0
    ELSE LET b == CHOOSE x \in B : TRUE
         IN  calculate_box_area(b) + SumBoxes(B \ {b})

\* Mutant: identical food boxes are counted once.
TotalFoodArea_Dedup(food_items) ==
    SumBoxes({ food_items[i].bbox : i \in DOMAIN food_items })

\* sum(calculate_box_area(item["bbox"]) for item in food_items)
RECURSIVE TotalFoodArea(_)
TotalFoodArea(food_items) ==
    IF food_items = <<>> THEN 0
    ELSE calculate_box_area(Head(food_items).bbox) + TotalFoodArea(Tail(food_items))

\* Mutant: the ratio is not clamped to 100.
CoveragePercent_NoClamp(total_food_area, plate_area) ==
    IF plate_area.n > 0
    THEN Rat(100 * total_food_area * plate_area.d, plate_area.n)
    ELSE Rat(0, 1)

\* Mutant: without a plate area, any food counts as a full plate.
CoveragePercent_FullWithoutPlate(total_food_area, plate_area) ==
    IF plate_area.n > 0
    THEN LET raw == Rat(100 * total_food_area * plate_area.d, plate_area.n)
         IN  IF RatGE(raw, 100) THEN Rat(100, 1) ELSE raw
    ELSE IF total_food_area > 0 THEN Rat(100, 1) ELSE Rat(0, 1)

\* min((total_food_area / plate_area) * 100, 100) if plate_area > 0 else 0
CoveragePercent(total_food_area, plate_area) ==
    IF plate_area.n > 0
    THEN LET raw == Rat(100 * total_food_area * plate_area.d, plate_area.n)
         IN  IF RatGE(raw, 100) THEN Rat(100, 1) ELSE raw
    ELSE Rat(0, 1)

\* Mutant: the thresholds are exclusive (> for >=).
WasteLevel_Exclusive(coverage_percent) ==
    IF RatGT(coverage_percent, 60) THEN "HIGH"
    ELSE IF RatGT(coverage_percent, 30) THEN "MEDIUM"
    ELSE IF RatGT(coverage_percent, 10) THEN "LOW"
    ELSE "NONE"

\* Mutant: HIGH starts at 50.
WasteLevel_Threshold50(coverage_percent) ==
    IF RatGE(coverage_percent, 50) THEN "HIGH"
    ELSE IF RatGE(coverage_percent, 30) THEN "MEDIUM"
    ELSE IF RatGE(coverage_percent, 10) THEN "LOW"
    ELSE "NONE"

\* the if / elif chain on coverage_percent
WasteLevel(coverage_percent) ==
    IF RatGE(coverage_percent, 60) THEN "HIGH"
    ELSE IF RatGE(coverage_percent, 30) THEN "MEDIUM"
    ELSE IF RatGE(coverage_percent, 10) THEN "LOW"
    ELSE "NONE"

WasteDescription(waste_level) ==
    CASE waste_level = "HIGH" -> "Significant food remaining"
      [] waste_level = "MEDIUM" -> "Moderate food remaining"
      [] waste_level = "LOW" -> "Minimal food remaining"
      [] OTHER -> "Plate is clean"

\* the unrounded coverage_percent local of analyze_plate_coverage
Coverage(dets, shape) ==
    LET p == Partition(dets)
    IN  CoveragePercent(TotalFoodArea(p.food_items), PlateArea(p.plate_bbox, shape))

analyze_plate_coverage(dets, shape) ==
    LET p == Partition(dets)
        plate_area == PlateArea(p.plate_bbox, shape)
        total_food_area == TotalFoodArea(p.food_items)
        coverage_percent == CoveragePercent(total_food_area, plate_area)
        waste_level == WasteLevel(coverage_percent)
    IN  [plate_detected |-> p.plate_bbox # NoBBox,
         coverage_percent |-> Round1(coverage_percent),
         waste_level |-> waste_level,
         waste_description |-> WasteDescription(waste_level),
         food_items_detected |-> Len(p.food_items),
         total_food_area_px |-> Round0(Rat(total_food_area, 1)),
         plate_area_px |-> Round0(plate_area)]

\* Mutant: the portion thresholds are inclusive (>= for >).
PortionSize_Inclusive(area) ==
    IF area >= 40000 THEN "Large"
    ELSE IF area >= 15000 THEN "Medium"
    ELSE "Small"

\* the portion estimate of generate_food_details
PortionSize(area) ==
    IF area > 40000 THEN "Large"
    ELSE IF area > 15000 THEN "Medium"
    ELSE "Small"

\* one entry of food_details
FoodDetail(det) ==
    LET bbox == det.bbox
        area == calculate_box_area(bbox)
        width == bbox[3] - bbox[1]
        height == bbox[4] - bbox[2]
    IN  [item |-> det.class_name,
         confidence |-> RoundHalfEven(det.confidence, 10),
         portion_size |-> PortionSize(area),
         dimensions |-> [width |-> Round0(Rat(width, 1)),
                         height |-> Round0(Rat(height, 1))]]

\* a variant that skips only the label spelled "Plate"
RECURSIVE generate_food_details_CaseSensitive(_)
generate_food_details_CaseSensitive(dets) ==
    IF dets = <<>> THEN <<>>
    ELSE LET det == Head(dets)
         IN  IF det.class_name = "Plate"
             THEN generate_food_details_CaseSensitive(Tail(dets))
             ELSE <<FoodDetail(det)>> \o generate_food_details_CaseSensitive(Tail(dets))

RECURSIVE generate_food_details(_)
generate_food_details(dets) ==
    IF dets = <<>> THEN <<>>
    ELSE LET det == Head(dets)
         IN  IF Lower(det.class_name) = "plate"
             THEN generate_food_details(Tail(dets))
             ELSE <<FoodDetail(det)>> \o generate_food_details(Tail(dets))

\* food_counts[class_name] = food_counts.get(class_name, 0) + 1 on an ordered
\* dict: an existing key keeps its place, a new key goes last
Increment(counts, class_name) ==
    IF \E i \in DOMAIN counts : counts[i][1] = class_name
    THEN [i \in DOMAIN counts |->
            IF counts[i][1] = class_name
            THEN <<class_name, counts[i][2] + 1>> ELSE counts[i]]
    ELSE Append(counts, <<class_name, 1>>)

\* the counting loop of analyze_food_waste
RECURSIVE CountLoop(_, _)
CountLoop(dets, counts) ==
    IF dets = <<>> THEN counts
    ELSE LET class_name == Head(dets).class_name
         IN  IF Lower(class_name) # "plate"
             THEN CountLoop(Tail(dets), Increment(counts, class_name))
             ELSE CountLoop(Tail(dets), counts)

CountFood(dets) == CountLoop(dets, <<>>)

\* list(food_counts.keys())
Keys(counts) == [i \in DOMAIN counts |-> counts[i][1]]

\* items[:k]
Take(items, k) == SubSeq(items, 1, IF Len(items) < k THEN Len(items) ELSE k)

\* f"{coverage:.0f}" of the reported coverage (tenths): the integer shown
FormatF0(coverage) == RoundHalfEven(coverage, 10)

\* Mutant: only two labels are listed.
ItemsStr_Two(items) == Take(items, 2)

\* the labels joined into items_str
ItemsStr(items) == Take(items, 3)

\* The message as its template, the number and the labels it interpolates.
generate_user_insight(analysis, counts) ==
    LET waste_level == analysis.waste_level
        coverage == analysis.coverage_percent
        items == Keys(counts)
    IN  IF waste_level = "NONE"
        THEN [template |-> "Great job", coverage |-> <<>>, items |-> <<>>]
        ELSE IF waste_level = "LOW"
        THEN [template |-> "Well done", coverage |-> <<FormatF0(coverage)>>,
              items |-> <<>>]
        ELSE IF waste_level = "MEDIUM"
        THEN [template |-> "Consider smaller portions",
              coverage |-> <<FormatF0(coverage)>>, items |-> ItemsStr(items)]
        ELSE [template |-> "Significant food waste detected",
              coverage |-> <<FormatF0(coverage)>>, items |-> ItemsStr(items)]

\* an unstable variant: an item goes in front of the items of equal count
RECURSIVE InsertSorted_Unstable(_, _)
InsertSorted_Unstable(sorted, item) ==
    IF sorted = <<>> THEN <<item>>
    ELSE IF item[2] >= Head(sorted)[2]
         THEN <<item>> \o sorted
         ELSE <<Head(sorted)>> \o InsertSorted_Unstable(Tail(sorted), item)

\* sorted(..., key=lambda x: x[1], reverse=True): a stable sort, so equal
\* counts keep their input order
RECURSIVE InsertSorted(_, _)
InsertSorted(sorted, item) ==
    IF sorted = <<>> THEN <<item>>
    ELSE IF item[2] > Head(sorted)[2]
         THEN <<item>> \o sorted
         ELSE <<Head(sorted)>> \o InsertSorted(Tail(sorted), item)

RECURSIVE SortByCountDesc(_, _)
SortByCountDesc(items, sorted) ==
    IF items = <<>> THEN sorted
    ELSE SortByCountDesc(Tail(items), InsertSorted(sorted, Head(items)))

RECURSIVE SumCounts(_)
SumCounts(counts) ==
    IF counts = <<>> THEN 0 ELSE Head(counts)[2] + SumCounts(Tail(counts))

HasKey(counts, label) == \E i \in DOMAIN counts : counts[i][1] = label

\* a variant that counts four distinct items as too many
Recommendations_FourItems(analysis, counts) ==
    IF analysis.waste_level \in {"HIGH", "MEDIUM"}
    THEN (IF HasKey(counts, "Rice")
          THEN <<"Consider reducing default rice portion size">> ELSE <<>>)
         \o (IF HasKey(counts, "Roti")
             THEN <<"Offer rotis on-demand rather than pre-plated">> ELSE <<>>)
         \o (IF Len(counts) >= 4
             THEN <<"Too many items may lead to waste - consider combo meals">>
             ELSE <<>>)
         \o <<"Display waste awareness signage near serving area">>
    ELSE <<>>

Recommendations(analysis, counts) ==
    IF analysis.waste_level \in {"HIGH", "MEDIUM"}
    THEN (IF HasKey(counts, "Rice")
          THEN <<"Consider reducing default rice portion size">> ELSE <<>>)
         \o (IF HasKey(counts, "Roti")
             THEN <<"Offer rotis on-demand rather than pre-plated">> ELSE <<>>)
         \o (IF Len(counts) > 4
             THEN <<"Too many items may lead to waste - consider combo meals">>
             ELSE <<>>)
         \o <<"Display waste awareness signage near serving area">>
    ELSE <<>>

\* a variant that asks for action on HIGH plates only
generate_admin_insight_HighOnly(analysis, counts) ==
    LET sorted_items == SortByCountDesc(counts, <<>>)
    IN  [waste_level |-> analysis.waste_level,
         coverage_percent |-> analysis.coverage_percent,
         items_left |-> sorted_items,
         most_wasted_item |->
            IF sorted_items # <<>> THEN <<sorted_items[1][1]>> ELSE <<>>,
         total_items_remaining |-> SumCounts(counts),
         recommendations |-> Recommendations(analysis, counts),
         action_required |-> analysis.waste_level = "HIGH"]

generate_admin_insight(analysis, counts) ==
    LET sorted_items == SortByCountDesc(counts, <<>>)
    IN  [waste_level |-> analysis.waste_level,
         coverage_percent |-> analysis.coverage_percent,
         items_left |-> sorted_items,
         most_wasted_item |->
            IF sorted_items # <<>> THEN <<sorted_items[1][1]>> ELSE <<>>,
         total_items_remaining |-> SumCounts(counts),
         recommendations |-> Recommendations(analysis, counts),
         action_required |-> analysis.waste_level \in {"HIGH", "MEDIUM"}]

-----------------------------------------------------------------------------
(* Inputs: what detector.detect may return *)

Det(class_name, confidence, bbox) ==
    [class_name |-> class_name, confidence |-> confidence, bbox |-> bbox]

\* Detections with the box geometry the coverage and portion rules turn on:
\* plates of area 40000, 10000 and 0 (zero width); food boxes of area 6400,
\* 4000 (10% of 40000), 3990 (9.975%), 12000 (30%), 15000, 40000, 90000, and a
\* box with its corners swapped (x2 < x1).
GeometryDets ==
    { Det("Plate", 9100, <<0, 0, 200, 200>>),
      Det("plate", 8000, <<0, 0, 100, 100>>),
      Det("Plate", 5000, <<0, 0, 0, 50>>),
      Det("Rice", 8734, <<20, 20, 100, 100>>),
      Det("Rice", 4021, <<0, 0, 40, 100>>),
      Det("Dal", 6612, <<0, 0, 399, 10>>),
      Det("Roti", 7500, <<0, 0, 120, 100>>),
      Det("Roti", 2500, <<0, 0, 150, 100>>),
      Det("Dal", 9999, <<0, 0, 200, 200>>),
      Det("Rice", 9550, <<0, 0, 300, 300>>),
      Det("Dal", 3000, <<100, 0, 0, 100>>) }

GeometryShapes == { <<200, 200>>, <<100, 150>> }

\* Detections that differ in their label only: each food box is 15% of the
\* plate box, so the number of food items decides the waste level.
LabelDets ==
    { Det("Plate", 9100, <<0, 0, 200, 200>>) }
    \cup { Det(l, 8000, <<0, 0, 60, 100>>) :
             l \in {"Rice", "Roti", "Dal", "Paneer", "Salad"} }

LabelShapes == { <<200, 200>> }

\* the sequences over S of length at most n
SeqUpTo(S, n) == UNION { [1..k -> S] : k \in 0..n }

-----------------------------------------------------------------------------
(* The local analysis of one /analyze request, src/app.py lines 268-281 *)

\* results = detector.detect(img)
\* no enrichment call made and no response sent yet
EnrichmentIdle ==
    /\ ai_user_insight = NotYet
    /\ ai_admin_insight = NotYet
    /\ gemini_log = <<>>
    /\ response = NotYet

\* no /generate-ai-insights request in progress
ReportIdle ==
    /\ feedback_docs = <<>>
    /\ time_range = "weekly"
    /\ cursor = 1
    /\ aggregated_data = NotYet
    /\ insights = NotYet
    /\ ai_summaries = <<>>

\* no /generate-weekly-summary request in progress
WeeklyIdle ==
    /\ implementation = "none"
    /\ summary = NotYet

\* no attendance QR generated or asked for
QRIdle ==
    /\ qr_docs = <<>>
    /\ qr_clock = 0
    /\ qr_today = 0
    /\ qr_calls = 0
    /\ qr_responses = {}

\* nothing but the one request that is followed
OthersIdle ==
    /\ WeeklyIdle
    /\ requests = <<>>
    /\ QRIdle

InitWith(DetLists, Shapes) ==
    /\ detections \in DetLists
    /\ image_shape \in Shapes
    /\ food_counts = NotYet
    /\ waste_analysis = NotYet
    /\ food_details = NotYet
    /\ user_insight = NotYet
    /\ admin_insight = NotYet
    /\ pc = "count"
    /\ enabled = FALSE
    /\ EnrichmentIdle
    /\ ReportIdle
    /\ OthersIdle

Init == InitWith(SeqUpTo(GeometryDets, MaxDets), GeometryShapes)

InitInsight == InitWith(SeqUpTo(LabelDets, MaxLabels), LabelShapes)

\* the counting loop
CountItems ==
    /\ pc = "count"
    /\ food_counts' = CountFood(detections)
    /\ pc' = "coverage"
    /\ UNCHANGED <<detections, image_shape, waste_analysis, food_details,
                   user_insight, admin_insight>>
    /\ UNCHANGED <<enrich_vars, report_vars, other_vars>>

\* waste_analysis = analyze_plate_coverage(...)
AnalyzePlateCoverage ==
    /\ pc = "coverage"
    /\ waste_analysis' = analyze_plate_coverage(detections, image_shape)
    /\ pc' = "details"
    /\ UNCHANGED <<detections, image_shape, food_counts, food_details,
                   user_insight, admin_insight>>
    /\ UNCHANGED <<enrich_vars, report_vars, other_vars>>

\* food_details = generate_food_details(...)
GenerateFoodDetails ==
    /\ pc = "details"
    /\ food_details' = generate_food_details(detections)
    /\ pc' = "user"
    /\ UNCHANGED <<detections, image_shape, food_counts, waste_analysis,
                   user_insight, admin_insight>>
    /\ UNCHANGED <<enrich_vars, report_vars, other_vars>>

\* user_insight = generate_user_insight(waste_analysis, food_counts)
GenerateUserInsight ==
    /\ pc = "user"
    /\ user_insight' = generate_user_insight(waste_analysis, food_counts)
    /\ pc' = "admin"
    /\ UNCHANGED <<detections, image_shape, food_counts, waste_analysis,
                   food_details, admin_insight>>
    /\ UNCHANGED <<enrich_vars, report_vars, other_vars>>

\* admin_insight = generate_admin_insight(waste_analysis, food_counts)
GenerateAdminInsight ==
    /\ pc = "admin"
    /\ admin_insight' = generate_admin_insight(waste_analysis, food_counts)
    /\ pc' = "done"
    /\ UNCHANGED <<detections, image_shape, food_counts, waste_analysis,
                   food_details, user_insight>>
    /\ UNCHANGED <<enrich_vars, report_vars, other_vars>>

Next ==
    \/ CountItems
    \/ AnalyzePlateCoverage
    \/ GenerateFoodDetails
    \/ GenerateUserInsight
    \/ GenerateAdminInsight

Spec == Init /\ [][Next]_vars

SpecInsight == InitInsight /\ [][Next]_vars

\* Detections and images without a positive plate area: plate boxes of zero
\* width, of zero width and height, and with x2 < x1, beside a proper plate
\* and two food boxes; images with a zero dimension.
ZeroAreaDets ==
    { Det("Plate", 9100, <<0, 0, 200, 200>>),
      Det("Plate", 5000, <<0, 0, 0, 50>>),
      Det("plate", 4000, <<50, 50, 50, 50>>),
      Det("Plate", 3000, <<100, 0, 0, 100>>),
      Det("Rice", 8734, <<20, 20, 100, 100>>),
      Det("Roti", 9000, <<0, 0, 300, 300>>) }

ZeroAreaShapes == { <<0, 200>>, <<200, 0>>, <<0, 0>>, <<200, 200>> }

InitZeroArea == InitWith(SeqUpTo(ZeroAreaDets, MaxDets), ZeroAreaShapes)

\* the local analysis on inputs without a positive plate area
SpecZeroArea == InitZeroArea /\ [][Next]_vars

-----------------------------------------------------------------------------
(* The enrichment of /analyze (src/gemini_service.py, src/app.py 283-311).  *)
(* The handler runs without interruption between two awaits; an await of    *)
(* model.generate_content_async ends when the service answers or the call   *)
(* raises, and the code sets no timeout on it.  An Optional[str] is the     *)
(* empty sequence for None and <<s>> for the string s.                      *)

None == <<>>

Some(v) == <<v>>

\* Python truth value of an Optional[str]
Truthy(opt) == opt # None /\ opt[1] # ""

\* str.strip() on the texts the service answers with
Strip(text) ==
    CASE text = "INVALID_IMAGE\n" -> "INVALID_IMAGE"
      [] text = "  " -> ""
      [] text = " Almost clean plate, well done!\n" -> "Almost clean plate, well done!"
      [] text = "Overview: feedback is limited.\n" -> "Overview: feedback is limited."
      [] OTHER -> text

\* what the service may answer to the user-insight prompt
UserTexts == { " Almost clean plate, well done!\n", "INVALID_IMAGE\n", "  " }

\* what the service may answer to the admin-report prompt
AdminTexts == { "- Waste is moderate; reduce rice portions" }

\* how an await of generate_content_async may end
ContentOutcomes(texts) ==
    { [raises |-> TRUE, text |-> ""] }
        \cup { [raises |-> FALSE, text |-> t] : t \in texts }

\* a variant that answers with a message when the call raised
InsightResult_ErrorText(outcome) ==
    IF outcome.raises THEN Some("AI insight unavailable")
    ELSE Some(Strip(outcome.text))

\* try: return response.text.strip()  except Exception: return None
InsightResult(outcome) ==
    IF outcome.raises THEN None ELSE Some(Strip(outcome.text))

\* a variant that tests for a differently spelled sentinel
IsRejection_Lowercase(ai_user) == ai_user = Some("invalid_image")

\* if ai_user_insight == "INVALID_IMAGE"
IsRejection(ai_user) == ai_user = Some("INVALID_IMAGE")

\* the 400 response of a rejected photo
AnalyzeRejection ==
    [status |-> 400,
     body |-> [success |-> FALSE,
               error |-> "INVALID_IMAGE",
               message |-> "The uploaded photo does not appear to be a food plate. Please upload a clear photo of your meal."]]

\* {**admin_insight, "ai_summary": ai_admin}
WithAiSummary(report, ai_admin) ==
    [f \in DOMAIN report \cup {"ai_summary"} |->
        IF f = "ai_summary" THEN ai_admin ELSE report[f]]

\* the 200 response; user_insight is the service's text when that is truthy
\* and the local message otherwise (timestamp left out)
AnalyzeSuccess(ai_user, ai_admin) ==
    [status |-> 200,
     body |-> [success |-> TRUE,
               image_size |-> [width |-> image_shape[2], height |-> image_shape[1]],
               food_summary |-> food_counts,
               food_details |-> food_details,
               waste_analysis |-> waste_analysis,
               user_insight |-> IF Truthy(ai_user) THEN [text |-> ai_user[1]]
                                ELSE [message |-> user_insight],
               admin_insight |-> WithAiSummary(admin_insight, ai_admin)]]

\* an entry of gemini_log
Logged(call, outcome) == [call |-> call, outcome |-> outcome]

\* how a call of generate_user_insight or generate_admin_insight ended
OutcomeKind(outcome) == IF outcome.raises THEN "raised" ELSE "text"

\* detector outputs of the requests whose enrichment is followed
ServiceDets ==
    { Det("Plate", 9100, <<0, 0, 200, 200>>),
      Det("PLATE", 8800, <<0, 0, 100, 100>>),
      Det("Rice", 8000, <<0, 0, 60, 100>>),
      Det("Roti", 7500, <<0, 0, 120, 100>>),
      Det("Dal", 6612, <<0, 0, 0, 50>>) }

\* an /analyze request after results = detector.detect(img)
InitAnalyze ==
    /\ detections \in SeqUpTo(ServiceDets, MaxDets)
    /\ image_shape \in LabelShapes
    /\ food_counts = NotYet
    /\ waste_analysis = NotYet
    /\ food_details = NotYet
    /\ user_insight = NotYet
    /\ admin_insight = NotYet
    /\ pc = "count"
    /\ enabled \in BOOLEAN
    /\ EnrichmentIdle
    /\ ReportIdle
    /\ OthersIdle

\* gemini_service disabled: both calls return None at once, without an
\* await that suspends, and the handler answers
RespondWithoutEnrichment ==
    /\ pc = "done"
    /\ ~enabled
    /\ ai_user_insight' = None
    /\ ai_admin_insight' = None
    /\ gemini_log' = gemini_log
                       \o << Logged("generate_user_insight", "disabled"),
                             Logged("generate_admin_insight", "disabled") >>
    /\ response' = AnalyzeSuccess(None, None)
    /\ pc' = "responded"
    /\ UNCHANGED <<other_vars, analysis_vars, enabled, report_vars>>

\* ai_user_insight = await gemini_service.generate_user_insight(...): the
\* prompt is sent and the handler is suspended
CallUserInsight ==
    /\ pc = "done"
    /\ enabled
    /\ pc' = "await_user"
    /\ UNCHANGED <<other_vars, analysis_vars, enrich_vars, report_vars>>

\* a variant that asks for the user insight again when the call raised
UserInsightReturns_Retry ==
    /\ pc = "await_user"
    /\ \E outcome \in ContentOutcomes(UserTexts) :
         LET result == InsightResult(outcome)
         IN  /\ gemini_log' = Append(gemini_log,
                                     Logged("generate_user_insight", OutcomeKind(outcome)))
             /\ IF outcome.raises
                THEN /\ ai_user_insight' = ai_user_insight
                     /\ response' = response
                     /\ pc' = "done"
                ELSE /\ ai_user_insight' = result
                     /\ IF IsRejection(result)
                        THEN /\ response' = AnalyzeRejection
                             /\ pc' = "responded"
                        ELSE /\ response' = response
                             /\ pc' = "await_admin"
    /\ UNCHANGED <<other_vars, analysis_vars, enabled, ai_admin_insight, report_vars>>

\* the user-insight call ends; the handler rejects the photo or goes on to
\* ai_admin_insight = await gemini_service.generate_admin_insight(...)
UserInsightReturns ==
    /\ pc = "await_user"
    /\ \E outcome \in ContentOutcomes(UserTexts) :
         LET result == InsightResult(outcome)
         IN  /\ ai_user_insight' = result
             /\ gemini_log' = Append(gemini_log,
                                     Logged("generate_user_insight", OutcomeKind(outcome)))
             /\ IF IsRejection(result)
                THEN /\ response' = AnalyzeRejection
                     /\ pc' = "responded"
                ELSE /\ response' = response
                     /\ pc' = "await_admin"
    /\ UNCHANGED <<other_vars, analysis_vars, enabled, ai_admin_insight, report_vars>>

\* the admin-report call ends and the handler answers
AdminInsightReturns ==
    /\ pc = "await_admin"
    /\ \E outcome \in ContentOutcomes(AdminTexts) :
         LET result == InsightResult(outcome)
         IN  /\ ai_admin_insight' = result
             /\ gemini_log' = Append(gemini_log,
                                     Logged("generate_admin_insight", OutcomeKind(outcome)))
             /\ response' = AnalyzeSuccess(ai_user_insight, result)
    /\ pc' = "responded"
    /\ UNCHANGED <<other_vars, analysis_vars, enabled, ai_user_insight, report_vars>>


-----------------------------------------------------------------------------
(* /generate-ai-insights (src/app.py 409-568).  A dict of the aggregation   *)
(* is a function on its keys: dict equality does not look at the insertion  *)
(* order.  An absent key of a document is None.  A rating average is an     *)
(* integer number of hundredths (round(x, 2)), a coverage an integer number *)
(* of tenths; the coverages of the documents below are whole percents, so   *)
(* that the float sums are exact and the order of a sum cannot show.  A     *)
(* slot of ratingAverages is the list List(values) while the documents are  *)
(* read and the number Num(n) afterwards.                                   *)

MaxDocs == 3

EmptyDict == [k \in {} |-> 0]

\* d.get(k, default)
Get(d, k, default) == IF k \in DOMAIN d THEN d[k] ELSE default

\* d[k] = v
Put(d, k, v) == [x \in DOMAIN d \cup {k} |-> IF x = k THEN v ELSE d[x]]

RatingKeys == {"taste", "oil", "quantity", "hygiene"}

WasteLevels == {"NONE", "LOW", "MEDIUM", "HIGH"}

TimeRanges == {"daily", "weekly", "monthly"}

LongComment == "a comment of 250 characters"

\* comment[:200]
Truncate200(text) ==
    IF text = LongComment THEN "the first 200 characters of it" ELSE text

\* a value that is a number, or something else such as a string
Num(n) == [num |-> n]

NotNum(text) == [str |-> text]

\* a value that is a list
List(values) == [list |-> values]

\* isinstance(v, (int, float))
IsNumber(v) == "num" \in DOMAIN v

\* a mealFeedback document, doc.to_dict()
Feedback(mealType, comment, text, ratings, wasteAnalysis) ==
    [mealType |-> mealType, comment |-> comment, text |-> text,
     ratings |-> ratings, wasteAnalysis |-> wasteAnalysis]

\* the documents a range query may stream
FeedbackDocs ==
    { Feedback(Some("lunch"), Some("Dal was too salty"), None,
               Some([taste |-> Num(4), oil |-> Num(3), quantity |-> Num(5),
                     hygiene |-> Num(4)]),
               Some([wasteLevel |-> "MEDIUM", coveragePercent |-> 450,
                     foodItems |-> [l \in {"Rice", "Roti"} |->
                                       IF l = "Rice" THEN 2 ELSE 1]])),
      Feedback(Some("dinner"), Some(""), Some("Too oily"),
               Some([taste |-> Num(2), oil |-> Num(1)]),
               None),
      Feedback(None, Some("  "), None,
               Some([taste |-> NotNum("good")]),
               Some([wasteLevel |-> "HIGH", coveragePercent |-> 1000,
                     foodItems |-> [l \in {"Rice"} |-> 1]])),
      Feedback(Some("lunch"), Some(LongComment), None,
               None,
               Some(EmptyDict)),
      Feedback(Some("breakfast"), None, None,
               Some([taste |-> Num(5), hygiene |-> Num(1)]),
               Some([foodItems |-> [l \in {"Dal"} |-> 3]])),
      Feedback(Some("dinner"), Some("Loved the paneer"), Some("ignored"),
               Some([quantity |-> Num(3)]),
               Some([wasteLevel |-> "low", coveragePercent |-> 160])) }

\* aggregated_data before the first document
Aggregation0(range) ==
    [timeRange |-> range,
     totalFeedback |-> 0,
     mealTypes |-> EmptyDict,
     comments |-> <<>>,
     wasteAnalysis |-> [totalAnalyses |-> 0,
                        wasteLevelCounts |-> [l \in WasteLevels |-> 0],
                        avgCoveragePercent |-> 0,
                        foodItemsWasted |-> EmptyDict],
     ratingAverages |-> [key \in RatingKeys |-> List(<<>>)]]

\* a variant that takes an absent or non-numeric rating as a neutral 3
RatingObservation_Default3(ratings, key) ==
    IF key \in DOMAIN ratings /\ IsNumber(ratings[key])
    THEN <<ratings[key].num>> ELSE <<3>>

\* what a document adds to the list of a rating category
RatingObservation(ratings, key) ==
    IF key \in DOMAIN ratings /\ IsNumber(ratings[key])
    THEN <<ratings[key].num>> ELSE <<>>

\* data.get("comment") or data.get("text") or ""
CommentOf(data) ==
    IF Truthy(data.comment) THEN data.comment[1]
    ELSE IF Truthy(data.text) THEN data.text[1] ELSE ""

\* a variant that keeps the latest count of a food item instead of the sum
FoldWaste_LastWins(stats, waste) ==
    LET waste_level == Get(waste, "wasteLevel", "NONE")
        coverage == Get(waste, "coveragePercent", 0)
        food_items == Get(waste, "foodItems", EmptyDict)
    IN  [totalAnalyses |-> stats.totalAnalyses + 1,
         wasteLevelCounts |->
            IF waste_level \in DOMAIN stats.wasteLevelCounts
            THEN [stats.wasteLevelCounts EXCEPT ![waste_level] = @ + 1]
            ELSE stats.wasteLevelCounts,
         avgCoveragePercent |-> stats.avgCoveragePercent + coverage,
         foodItemsWasted |->
            [item \in DOMAIN stats.foodItemsWasted \cup DOMAIN food_items |->
                IF item \in DOMAIN food_items THEN food_items[item]
                ELSE stats.foodItemsWasted[item]]]

\* a variant that counts the documents naming a food item, not the items
FoldWaste_OnePerLabel(stats, waste) ==
    LET waste_level == Get(waste, "wasteLevel", "NONE")
        coverage == Get(waste, "coveragePercent", 0)
        food_items == Get(waste, "foodItems", EmptyDict)
    IN  [totalAnalyses |-> stats.totalAnalyses + 1,
         wasteLevelCounts |->
            IF waste_level \in DOMAIN stats.wasteLevelCounts
            THEN [stats.wasteLevelCounts EXCEPT ![waste_level] = @ + 1]
            ELSE stats.wasteLevelCounts,
         avgCoveragePercent |-> stats.avgCoveragePercent + coverage,
         foodItemsWasted |->
            [item \in DOMAIN stats.foodItemsWasted \cup DOMAIN food_items |->
                Get(stats.foodItemsWasted, item, 0)
                    + (IF item \in DOMAIN food_items THEN 1 ELSE 0)]]

\* the waste part of the loop body, for a truthy wasteAnalysis
FoldWaste(stats, waste) ==
    LET waste_level == Get(waste, "wasteLevel", "NONE")
        coverage == Get(waste, "coveragePercent", 0)
        food_items == Get(waste, "foodItems", EmptyDict)
    IN  [totalAnalyses |-> stats.totalAnalyses + 1,
         wasteLevelCounts |->
            IF waste_level \in DOMAIN stats.wasteLevelCounts
            THEN [stats.wasteLevelCounts EXCEPT ![waste_level] = @ + 1]
            ELSE stats.wasteLevelCounts,
         avgCoveragePercent |-> stats.avgCoveragePercent + coverage,
         foodItemsWasted |->
            [item \in DOMAIN stats.foodItemsWasted \cup DOMAIN food_items |->
                Get(stats.foodItemsWasted, item, 0) + Get(food_items, item, 0)]]

\* the body of "for doc in feedback_docs"
FoldDoc(agg, data) ==
    LET meal_type == IF data.mealType = None THEN "unknown" ELSE data.mealType[1]
        seen == Get(agg.mealTypes, meal_type, [count |-> 0, ratings |-> <<>>])
        comment == CommentOf(data)
        ratings == IF data.ratings = None THEN EmptyDict ELSE data.ratings[1]
        waste == data.wasteAnalysis
    IN  [timeRange |-> agg.timeRange,
         totalFeedback |-> agg.totalFeedback + 1,
         mealTypes |-> Put(agg.mealTypes, meal_type,
                           [seen EXCEPT !.count = @ + 1]),
         comments |->
            IF Strip(comment) # ""
            THEN Append(agg.comments,
                        [mealType |-> meal_type, text |-> Truncate200(comment),
                         ratings |-> ratings])
            ELSE agg.comments,
         wasteAnalysis |->
            IF waste # None /\ waste[1] # EmptyDict
            THEN FoldWaste(agg.wasteAnalysis, waste[1])
            ELSE agg.wasteAnalysis,
         ratingAverages |->
            [key \in RatingKeys |->
                List(agg.ratingAverages[key].list
                        \o RatingObservation(ratings, key))]]

RECURSIVE SumSeq(_)
SumSeq(values) ==
    IF values = <<>> THEN 0 ELSE Head(values) + SumSeq(Tail(values))

\* round(sum(values) / len(values), 2) if values else 0, in hundredths
RatingAverage(values) ==
    IF values # <<>> THEN Num(RoundHalfEven(100 * SumSeq(values), Len(values)))
    ELSE Num(0)

\* a variant that averages the ratings and leaves the coverage as summed
FinalizeAverages_RatingsOnly(agg) ==
    [agg EXCEPT
        !.ratingAverages = [key \in RatingKeys |-> RatingAverage(@[key].list)]]

\* "Calculate averages"
FinalizeAverages(agg) ==
    [agg EXCEPT
        !.ratingAverages = [key \in RatingKeys |-> RatingAverage(@[key].list)],
        !.wasteAnalysis.avgCoveragePercent =
            IF agg.wasteAnalysis.totalAnalyses > 0
            THEN RoundHalfEven(@, agg.wasteAnalysis.totalAnalyses)
            ELSE @]

RECURSIVE FoldAll(_, _)
FoldAll(docs, agg) ==
    IF docs = <<>> THEN agg ELSE FoldAll(Tail(docs), FoldDoc(agg, Head(docs)))

\* the finalized aggregation of a stream of documents
Aggregate(docs, range) == FinalizeAverages(FoldAll(docs, Aggregation0(range)))

\* the insights of the no-feedback answer
EmptyInsights(range) ==
    [issues |-> <<>>, improvements |-> <<>>, wellPerforming |-> <<>>,
     summary |-> <<"No feedback data available for the period", range>>]

\* the insights used when generate_structured_insights returned nothing
FallbackInsights ==
    [issues |-> <<>>, improvements |-> <<>>, wellPerforming |-> <<>>,
     summary |-> <<"AI analysis temporarily unavailable. Please try again later.">>]

\* insights the service may produce
GoodInsights ==
    [issues |-> <<"Oily food">>, improvements |-> <<>>, wellPerforming |-> <<"Paneer">>,
     summary |-> <<"Feedback is mixed">>]

\* what the service may answer to the structured-insights prompt
InsightTexts ==
    { "{'issues': ['Oily food'], 'summary': 'Feedback is mixed'}",
      "'''json\n{'issues': ['Oily food'], 'summary': 'Feedback is mixed'}\n'''",
      "Here are the insights you asked for",
      "{}",
      "{'answer': 'none'}" }

\* the removal of a markdown code fence (written ''' here) around the answer
StripFences(text) ==
    IF text = "'''json\n{'issues': ['Oily food'], 'summary': 'Feedback is mixed'}\n'''"
    THEN "{'issues': ['Oily food'], 'summary': 'Feedback is mixed'}"
    ELSE text

\* json.loads
JsonLoads(text) ==
    CASE text = "{'issues': ['Oily food'], 'summary': 'Feedback is mixed'}" ->
            [raises |-> FALSE, value |-> GoodInsights]
      [] text = "{}" -> [raises |-> FALSE, value |-> EmptyDict]
      [] text = "{'answer': 'none'}" ->
            [raises |-> FALSE, value |-> [answer |-> "none"]]
      [] OTHER -> [raises |-> TRUE, value |-> EmptyDict]

\* a variant that hands the unparsed answer on when it is not JSON
StructuredResult_Unparsed(outcome) ==
    IF outcome.raises THEN None
    ELSE LET parsed == JsonLoads(StripFences(Strip(outcome.text)))
         IN  IF parsed.raises THEN Some([text |-> outcome.text])
             ELSE Some(parsed.value)

\* generate_structured_insights: None when the call or json.loads raises
StructuredResult(outcome) ==
    IF outcome.raises THEN None
    ELSE LET parsed == JsonLoads(StripFences(Strip(outcome.text)))
         IN  IF parsed.raises THEN None ELSE Some(parsed.value)

\* how a call of generate_structured_insights ended
StructuredKind(outcome) ==
    IF outcome.raises THEN "raised"
    ELSE IF JsonLoads(StripFences(Strip(outcome.text))).raises THEN "malformed"
    ELSE "text"

\* "if not insights": None or an empty dict
Falsy(result) == result = None \/ result[1] = EmptyDict

\* the insights that are stored and returned
FinalInsights(result) == IF Falsy(result) THEN FallbackInsights ELSE result[1]

\* f"insights_{request.time_range}"
DocId(range) == <<"insights_", range>>

\* the document written to aiSummaries (generatedAt left out)
SummaryDoc(final, agg) ==
    [type |-> "structured_insights",
     timeRange |-> agg.timeRange,
     insights |-> final,
     aggregatedData |-> [totalFeedback |-> agg.totalFeedback,
                         wasteAnalyses |-> agg.wasteAnalysis.totalAnalyses,
                         ratingAverages |-> agg.ratingAverages]]

\* the answer of /generate-ai-insights (generatedAt left out)
ReportSuccess(final, agg) ==
    [status |-> 200,
     body |-> [success |-> TRUE,
               insights |-> final,
               meta |-> [totalFeedback |-> agg.totalFeedback,
                         wasteAnalyses |-> agg.wasteAnalysis.totalAnalyses,
                         timeRange |-> agg.timeRange]]]

\* the answer of the no-feedback guard
ReportEmpty(range) ==
    [status |-> 200,
     body |-> [success |-> TRUE, insights |-> EmptyInsights(range)]]

\* a /generate-ai-insights request when the range query has been made
InitReport ==
    /\ detections = NotYet
    /\ image_shape = NotYet
    /\ food_counts = NotYet
    /\ waste_analysis = NotYet
    /\ food_details = NotYet
    /\ user_insight = NotYet
    /\ admin_insight = NotYet
    /\ pc = "fold"
    /\ enabled \in BOOLEAN
    /\ EnrichmentIdle
    /\ feedback_docs \in SeqUpTo(FeedbackDocs, MaxDocs)
    /\ time_range \in TimeRanges
    /\ cursor = 1
    /\ aggregated_data = Aggregation0(time_range)
    /\ insights = NotYet
    /\ ai_summaries = <<>>
    /\ OthersIdle

\* one turn of "for doc in feedback_docs"
FoldRecord ==
    /\ pc = "fold"
    /\ cursor <= Len(feedback_docs)
    /\ aggregated_data' = FoldDoc(aggregated_data, feedback_docs[cursor])
    /\ cursor' = cursor + 1
    /\ UNCHANGED <<other_vars, analysis_vars, pc, enrich_vars, feedback_docs, time_range,
                   insights, ai_summaries>>

\* the stream is exhausted: "Calculate averages"
Finalize ==
    /\ pc = "fold"
    /\ cursor > Len(feedback_docs)
    /\ aggregated_data' = FinalizeAverages(aggregated_data)
    /\ pc' = "guard"
    /\ UNCHANGED <<other_vars, analysis_vars, enrich_vars, feedback_docs, time_range,
                   cursor, insights, ai_summaries>>

\* "No feedback guard": answer without a call of the service and without a
\* write
NoFeedbackGuard ==
    /\ pc = "guard"
    /\ aggregated_data.totalFeedback = 0
    /\ response' = ReportEmpty(time_range)
    /\ pc' = "reported"
    /\ UNCHANGED <<other_vars, analysis_vars, enabled, ai_user_insight, ai_admin_insight,
                   gemini_log, report_vars>>

\* the tail of the handler once generate_structured_insights has returned:
\* fallback, write to aiSummaries, answer
CompleteReport(result) ==
    LET final == FinalInsights(result)
    IN  /\ insights' = result
        /\ ai_summaries' = Append(ai_summaries,
                                  [doc_id |-> DocId(time_range),
                                   doc |-> SummaryDoc(final, aggregated_data)])
        /\ response' = ReportSuccess(final, aggregated_data)
        /\ pc' = "reported"

\* gemini_service disabled: generate_structured_insights returns None at once
ReportWithoutEnrichment ==
    /\ pc = "guard"
    /\ aggregated_data.totalFeedback > 0
    /\ ~enabled
    /\ gemini_log' = Append(gemini_log,
                            Logged("generate_structured_insights", "disabled"))
    /\ CompleteReport(None)
    /\ UNCHANGED <<other_vars, analysis_vars, enabled, ai_user_insight, ai_admin_insight,
                   feedback_docs, time_range, cursor, aggregated_data>>

\* insights = await gemini_service.generate_structured_insights(...): the
\* prompt is sent and the handler is suspended
CallStructuredInsights ==
    /\ pc = "guard"
    /\ aggregated_data.totalFeedback > 0
    /\ enabled
    /\ pc' = "await_insights"
    /\ UNCHANGED <<other_vars, analysis_vars, enrich_vars, report_vars>>

\* the structured-insights call ends and the handler completes
StructuredInsightsReturns ==
    /\ pc = "await_insights"
    /\ \E outcome \in ContentOutcomes(InsightTexts) :
         /\ gemini_log' = Append(gemini_log,
                                 Logged("generate_structured_insights",
                                        StructuredKind(outcome)))
         /\ CompleteReport(StructuredResult(outcome))
    /\ UNCHANGED <<other_vars, analysis_vars, enabled, ai_user_insight, ai_admin_insight,
                   feedback_docs, time_range, cursor, aggregated_data>>

-----------------------------------------------------------------------------
(* /generate-weekly-summary, in its two implementations: the async handler  *)
(* of src/app.py (319-402), which asks gemini_service for the summary, and  *)
(* the handler of src/mess-o-meter-backend/main.py, which calls             *)
(* generate_summary of src/mess-o-meter-backend/ai.py.  Both read every     *)
(* mealFeedback document.  While the documents are read, aggregated_data    *)
(* holds the locals total_feedback and dish_stats under the keys they get   *)
(* in the dict built from them.                                             *)

Implementations == {"app", "backend"}

\* text.lower().split() on the texts of the documents
Words(text) ==
    CASE text = "Dal was too salty" -> <<"dal", "was", "too", "salty">>
      [] text = "Too oily" -> <<"too", "oily">>
      [] text = "Loved the paneer" -> <<"loved", "the", "paneer">>
      [] text = "ignored" -> <<"ignored">>
      [] text = LongComment -> <<"the", "words", "of", "it">>
      [] text = "  " -> <<>>
      [] text = "" -> <<>>
      [] OTHER -> <<text>>

\* app.py: data.get("text") or data.get("comment") or ""
\* main.py: data.get("text", "")
FeedbackText(impl, data) ==
    IF impl = "app"
    THEN IF Truthy(data.text) THEN data.text[1]
         ELSE IF Truthy(data.comment) THEN data.comment[1]
         ELSE ""
    ELSE IF data.text = None THEN "" ELSE data.text[1]

\* the default of dish_stats.setdefault(meal, ...)
DishStats0 == [count |-> 0, ratingsSum |-> EmptyDict, issues |-> EmptyDict]

\* for k, v in ratings.items(): if isinstance(v, (int, float)):
\*     ratingsSum[k] = ratingsSum.get(k, 0) + v
AddRatings(ratingsSum, ratings) ==
    LET numeric == { k \in DOMAIN ratings : IsNumber(ratings[k]) }
    IN  [k \in DOMAIN ratingsSum \cup numeric |->
            Get(ratingsSum, k, 0) + (IF k \in numeric THEN ratings[k].num ELSE 0)]

\* for word in words: issues[word] = issues.get(word, 0) + 1
RECURSIVE CountWords(_, _)
CountWords(issues, words) ==
    IF words = <<>> THEN issues
    ELSE CountWords(Put(issues, Head(words), Get(issues, Head(words), 0) + 1),
                    Tail(words))

\* total_feedback and dish_stats before the first document
WeeklyAggregation0 ==
    [range |-> "weekly", totalFeedback |-> 0, dishStats |-> EmptyDict]

\* the body of the loop over the documents
FoldFeedback(agg, impl, data) ==
    LET meal == IF data.mealType = None THEN "unknown" ELSE data.mealType[1]
        ratings == IF data.ratings = None THEN EmptyDict ELSE data.ratings[1]
        text == FeedbackText(impl, data)
        stats == Get(agg.dishStats, meal, DishStats0)
        updated == [count |-> stats.count + 1,
                    ratingsSum |-> AddRatings(stats.ratingsSum, ratings),
                    issues |-> CountWords(stats.issues, Words(text))]
    IN  [range |-> "weekly",
         totalFeedback |-> agg.totalFeedback + 1,
         dishStats |-> Put(agg.dishStats, meal, updated)]

SummaryDisabled == "AI summary not available - Gemini API not configured."

SummaryFallback == "No sufficient feedback data available for this period."

\* what the service may answer to the summary prompt
SummaryTexts == { "Overview: feedback is limited.\n", "  " }

\* gemini_service.generate_weekly_summary when enabled:
\* try: return response.text.strip()  except Exception: return the fallback
WeeklySummaryResult(outcome) ==
    IF outcome.raises THEN SummaryFallback ELSE Strip(outcome.text)

\* how client.models.generate_content of ai.py may end: it raises, or it
\* returns a response with a text (None when absent) and the text of the
\* first part of the first candidate (None when there is none)
ContentResponses ==
    { [raises |-> TRUE, text |-> None, candidate |-> None] }
        \cup { [raises |-> FALSE, text |-> t, candidate |-> c] :
                  t \in {None, Some(""), Some("Lunch was rated well.\n")},
                  c \in {None, Some("Lunch was rated well.\n")} }

\* ai.generate_summary once generate_content has returned
generate_summary(content) ==
    IF Truthy(content.text) THEN content.text[1]
    ELSE IF content.candidate # None THEN content.candidate[1]
    ELSE SummaryFallback

\* the document written to aiSummaries/weekly_summary (generatedAt left out)
WeeklyDoc(content) ==
    [doc_id |-> <<"weekly_summary">>,
     doc |-> [range |-> "weekly", type |-> "feedback", content |-> content]]

\* the answer of the no-feedback guard; main.py sends no success field
WeeklyEmpty(impl) ==
    IF impl = "app"
    THEN [status |-> 200,
          body |-> [success |-> TRUE,
                    message |-> "No feedback available",
                    content |-> "No meal feedback was submitted during this period."]]
    ELSE [status |-> 200,
          body |-> [message |-> "No feedback available",
                    content |-> "No meal feedback was submitted during this period."]]

\* the answer that carries the summary
WeeklySuccess(impl, content) ==
    IF impl = "app"
    THEN [status |-> 200,
          body |-> [success |-> TRUE,
                    message |-> "Weekly AI summary generated",
                    content |-> content]]
    ELSE [status |-> 200,
          body |-> [message |-> "Weekly AI summary generated",
                    content |-> content]]

\* the answer FastAPI gives when the handler of main.py raised
WeeklyFailure == [status |-> 500, body |-> [detail |-> "Internal Server Error"]]

\* a /generate-weekly-summary request when the collection has been queried;
\* gemini_service.enabled plays no part in main.py
InitWeekly ==
    /\ detections = NotYet
    /\ image_shape = NotYet
    /\ food_counts = NotYet
    /\ waste_analysis = NotYet
    /\ food_details = NotYet
    /\ user_insight = NotYet
    /\ admin_insight = NotYet
    /\ pc = "weekly_fold"
    /\ implementation \in Implementations
    /\ enabled \in IF implementation = "app" THEN BOOLEAN ELSE {FALSE}
    /\ EnrichmentIdle
    /\ feedback_docs \in SeqUpTo(FeedbackDocs, MaxDocs)
    /\ time_range = "weekly"
    /\ cursor = 1
    /\ aggregated_data = WeeklyAggregation0
    /\ insights = NotYet
    /\ ai_summaries = <<>>
    /\ summary = None
    /\ requests = <<>>
    /\ QRIdle

\* for doc in feedback_docs: one document
FoldFeedbackRecord ==
    /\ pc = "weekly_fold"
    /\ cursor <= Len(feedback_docs)
    /\ aggregated_data' = FoldFeedback(aggregated_data, implementation,
                                       feedback_docs[cursor])
    /\ cursor' = cursor + 1
    /\ UNCHANGED <<analysis_vars, pc, enrich_vars, feedback_docs, time_range,
                   insights, ai_summaries, weekly_vars, requests, qr_vars>>

\* if total_feedback == 0: return the no-feedback answer
WeeklyNoFeedbackGuard ==
    /\ pc = "weekly_fold"
    /\ cursor > Len(feedback_docs)
    /\ aggregated_data.totalFeedback = 0
    /\ response' = WeeklyEmpty(implementation)
    /\ pc' = "summarised"
    /\ UNCHANGED <<analysis_vars, enabled, ai_user_insight, ai_admin_insight,
                   gemini_log, report_vars, weekly_vars, requests, qr_vars>>

\* the summary is saved and returned
CompleteWeekly(content) ==
    /\ summary' = Some(content)
    /\ ai_summaries' = Append(ai_summaries, WeeklyDoc(content))
    /\ response' = WeeklySuccess(implementation, content)
    /\ pc' = "summarised"

\* app.py with the service disabled: generate_weekly_summary returns at once
WeeklyWithoutEnrichment ==
    /\ pc = "weekly_fold"
    /\ cursor > Len(feedback_docs)
    /\ aggregated_data.totalFeedback # 0
    /\ implementation = "app"
    /\ ~enabled
    /\ gemini_log' = Append(gemini_log,
                            Logged("generate_weekly_summary", "disabled"))
    /\ CompleteWeekly(SummaryDisabled)
    /\ UNCHANGED <<analysis_vars, enabled, ai_user_insight, ai_admin_insight,
                   feedback_docs, time_range, cursor, aggregated_data, insights,
                   implementation, requests, qr_vars>>

\* a variant that asks for the summary of an empty collection too
CallWeeklySummary_Unguarded ==
    /\ pc = "weekly_fold"
    /\ cursor > Len(feedback_docs)
    /\ implementation = "app"
    /\ enabled
    /\ pc' = "await_summary"
    /\ UNCHANGED <<analysis_vars, enrich_vars, report_vars, weekly_vars,
                   requests, qr_vars>>

\* app.py: summary = await gemini_service.generate_weekly_summary(...)
CallWeeklySummary ==
    /\ pc = "weekly_fold"
    /\ cursor > Len(feedback_docs)
    /\ aggregated_data.totalFeedback # 0
    /\ implementation = "app"
    /\ enabled
    /\ pc' = "await_summary"
    /\ UNCHANGED <<analysis_vars, enrich_vars, report_vars, weekly_vars,
                   requests, qr_vars>>

\* the summary call of app.py ends and the handler saves and answers
WeeklySummaryReturns ==
    /\ pc = "await_summary"
    /\ \E outcome \in ContentOutcomes(SummaryTexts) :
         /\ gemini_log' = Append(gemini_log,
                                 Logged("generate_weekly_summary", OutcomeKind(outcome)))
         /\ CompleteWeekly(WeeklySummaryResult(outcome))
    /\ UNCHANGED <<analysis_vars, enabled, ai_user_insight, ai_admin_insight,
                   feedback_docs, time_range, cursor, aggregated_data, insights,
                   implementation, requests, qr_vars>>

\* main.py: summary = generate_summary(aggregated_data), then save and answer;
\* an exception of generate_content leaves generate_summary and the handler
BackendSummary ==
    /\ pc = "weekly_fold"
    /\ cursor > Len(feedback_docs)
    /\ aggregated_data.totalFeedback # 0
    /\ implementation = "backend"
    /\ \E content \in ContentResponses :
         /\ gemini_log' = Append(gemini_log,
                                 Logged("generate_summary", OutcomeKind(content)))
         /\ IF content.raises
            THEN /\ response' = WeeklyFailure
                 /\ pc' = "failed"
                 /\ UNCHANGED <<summary, ai_summaries>>
            ELSE CompleteWeekly(generate_summary(content))
    /\ UNCHANGED <<analysis_vars, enabled, ai_user_insight, ai_admin_insight,
                   feedback_docs, time_range, cursor, aggregated_data, insights,
                   implementation, requests, qr_vars>>

\* the steps the handlers take by themselves
HandlerStep ==
    \/ Next
    \/ RespondWithoutEnrichment
    \/ CallUserInsight
    \/ FoldRecord
    \/ Finalize
    \/ NoFeedbackGuard
    \/ ReportWithoutEnrichment
    \/ CallStructuredInsights
    \/ FoldFeedbackRecord
    \/ WeeklyNoFeedbackGuard
    \/ WeeklyWithoutEnrichment
    \/ CallWeeklySummary
    \/ BackendSummary

\* the steps that need the enrichment service to answer or to fail
EnrichmentReturns ==
    \/ UserInsightReturns
    \/ AdminInsightReturns
    \/ StructuredInsightsReturns
    \/ WeeklySummaryReturns

InitService == InitAnalyze \/ InitReport \/ InitWeekly

NextService == HandlerStep \/ EnrichmentReturns

\* one request of one of the endpoints
SpecService == InitService /\ [][NextService]_vars

\* the same, where every step of the handler that can be taken is taken, and
\* nothing is assumed of the time the enrichment service takes
FairSpecService == SpecService /\ WF_vars(HandlerStep)

-----------------------------------------------------------------------------
(* Several /analyze requests in flight (src/app.py 243-316).  The server    *)
(* runs the handlers as coroutines of one event loop: a handler keeps the   *)
(* loop until it awaits, and the awaits of analyze_food_waste are           *)
(* image.read() and the two calls of gemini_service.  Everything the        *)
(* handler computes is bound to a local name of its own call; detector and  *)
(* gemini_service are module globals that the handler only reads.  With     *)
(* gemini_service disabled the two calls return without suspending.         *)

MaxRequests == 2

\* detector outputs of the photos uploaded together
Uploads ==
    { [detections |-> <<Det("Plate", 9100, <<0, 0, 200, 200>>)>>,
       image_shape |-> <<200, 200>>],
      [detections |-> <<Det("Plate", 9100, <<0, 0, 200, 200>>),
                        Det("Rice", 8000, <<0, 0, 60, 100>>)>>,
       image_shape |-> <<200, 200>>],
      [detections |-> <<Det("Roti", 7500, <<0, 0, 120, 100>>),
                        Det("Roti", 7500, <<0, 0, 120, 100>>),
                        Det("Rice", 8000, <<0, 0, 60, 100>>)>>,
       image_shape |-> <<100, 150>>] }

\* the locals of a call of analyze_food_waste that awaits image.read()
Reading(upload) ==
    [pc |-> "read",
     detections |-> upload.detections,
     image_shape |-> upload.image_shape,
     food_counts |-> NotYet,
     waste_analysis |-> NotYet,
     food_details |-> NotYet,
     user_insight |-> NotYet,
     admin_insight |-> NotYet,
     ai_user_insight |-> NotYet,
     ai_admin_insight |-> NotYet,
     response |-> NotYet]

\* lines 265-281: the detector's results and the local analysis
AnalyseLocally(locals) ==
    LET counts == CountFood(locals.detections)
        waste == analyze_plate_coverage(locals.detections, locals.image_shape)
    IN  [locals EXCEPT
            !.food_counts = counts,
            !.waste_analysis = waste,
            !.food_details = generate_food_details(locals.detections),
            !.user_insight = generate_user_insight(waste, counts),
            !.admin_insight = generate_admin_insight(waste, counts)]

\* the 200 response built from the locals of the call
SuccessOf(locals) ==
    [status |-> 200,
     body |-> [success |-> TRUE,
               image_size |-> [width |-> locals.image_shape[2],
                               height |-> locals.image_shape[1]],
               food_summary |-> locals.food_counts,
               food_details |-> locals.food_details,
               waste_analysis |-> locals.waste_analysis,
               user_insight |-> IF Truthy(locals.ai_user_insight)
                                THEN [text |-> locals.ai_user_insight[1]]
                                ELSE [message |-> locals.user_insight],
               admin_insight |-> WithAiSummary(locals.admin_insight,
                                               locals.ai_admin_insight)]]

InitConcurrent ==
    /\ detections = NotYet
    /\ image_shape = NotYet
    /\ food_counts = NotYet
    /\ waste_analysis = NotYet
    /\ food_details = NotYet
    /\ user_insight = NotYet
    /\ admin_insight = NotYet
    /\ pc = "serving"
    /\ enabled \in BOOLEAN
    /\ EnrichmentIdle
    /\ ReportIdle
    /\ WeeklyIdle
    /\ QRIdle
    /\ requests \in [1..MaxRequests -> { Reading(u) : u \in Uploads }]

\* a variant where food_counts is a module global: the dict of the call that
\* ran last is the one every call in flight sees
ReadReturns_GlobalCounts(r) ==
    /\ requests[r].pc = "read"
    /\ LET analysed == AnalyseLocally(requests[r])
           seen == [q \in DOMAIN requests |->
                      IF q = r THEN analysed
                      ELSE IF requests[q].pc \in {"await_user", "await_admin"}
                           THEN [requests[q] EXCEPT !.food_counts = analysed.food_counts]
                           ELSE requests[q]]
       IN  IF enabled
           THEN requests' = [seen EXCEPT ![r].pc = "await_user"]
           ELSE LET quiet == [analysed EXCEPT !.ai_user_insight = None,
                                              !.ai_admin_insight = None]
                IN  requests' = [seen EXCEPT
                                   ![r] = [quiet EXCEPT !.response = SuccessOf(quiet),
                                                        !.pc = "responded"]]
    /\ UNCHANGED <<analysis_vars, pc, enrich_vars, report_vars, weekly_vars,
                   qr_vars>>

\* image.read() returns to request r: the handler runs up to its next await,
\* or to its return when gemini_service is disabled
ReadReturns(r) ==
    /\ requests[r].pc = "read"
    /\ LET analysed == AnalyseLocally(requests[r])
       IN  IF enabled
           THEN requests' = [requests EXCEPT ![r] = [analysed EXCEPT !.pc = "await_user"]]
           ELSE LET quiet == [analysed EXCEPT !.ai_user_insight = None,
                                              !.ai_admin_insight = None]
                IN  requests' = [requests EXCEPT
                                   ![r] = [quiet EXCEPT !.response = SuccessOf(quiet),
                                                        !.pc = "responded"]]
    /\ UNCHANGED <<analysis_vars, pc, enrich_vars, report_vars, weekly_vars,
                   qr_vars>>

\* the user-insight call of request r ends: rejection, or the next await
UserCallReturns(r) ==
    /\ requests[r].pc = "await_user"
    /\ \E outcome \in ContentOutcomes(UserTexts) :
         LET result == InsightResult(outcome)
             got == [requests[r] EXCEPT !.ai_user_insight = result]
         IN  requests' = [requests EXCEPT
                            ![r] = IF IsRejection(result)
                                   THEN [got EXCEPT !.response = AnalyzeRejection,
                                                    !.pc = "responded"]
                                   ELSE [got EXCEPT !.pc = "await_admin"]]
    /\ UNCHANGED <<analysis_vars, pc, enrich_vars, report_vars, weekly_vars,
                   qr_vars>>

\* the admin-report call of request r ends and the handler answers
AdminCallReturns(r) ==
    /\ requests[r].pc = "await_admin"
    /\ \E outcome \in ContentOutcomes(AdminTexts) :
         LET got == [requests[r] EXCEPT !.ai_admin_insight = InsightResult(outcome)]
         IN  requests' = [requests EXCEPT
                            ![r] = [got EXCEPT !.response = SuccessOf(got),
                                               !.pc = "responded"]]
    /\ UNCHANGED <<analysis_vars, pc, enrich_vars, report_vars, weekly_vars,
                   qr_vars>>

NextConcurrent ==
    \/ \E r \in DOMAIN requests : ReadReturns(r)
    \/ \E r \in DOMAIN requests : UserCallReturns(r)
    \/ \E r \in DOMAIN requests : AdminCallReturns(r)

\* /analyze requests served together, switching at the awaits
SpecConcurrent == InitConcurrent /\ [][NextConcurrent]_vars

-----------------------------------------------------------------------------
(* The attendance QR endpoints (src/app.py 570-704).  generate_qr and       *)
(* get_qr are coroutines without an await: their Firestore calls are        *)
(* blocking calls made on the event loop, so the server, one process with   *)
(* one loop (uvicorn.run, line 753), runs each call from its first line to  *)
(* its return before it starts the next: calls that arrive together run     *)
(* one after the other, in any order.  A date string is the number of the   *)
(* day, a document id the pair of its parts, and a JSON text the list of    *)
(* its members in the order json.dumps writes them.  Firestore is taken to  *)
(* be connected and to answer.                                              *)

MaxCalls == 3

MaxClock == 2

LastDay == 1

\* request.meal_type of the calls
MealInputs == {"Lunch", "snack"}

\* if meal_type not in ['breakfast', 'lunch', 'dinner']
ValidMeal(meal_type) == meal_type \in {"breakfast", "lunch", "dinner"}

\* f"{meal_type}_{date_str}"
QRDocId(meal_type, date_str) == <<meal_type, date_str>>

\* generate_qr_payload: time.time() is read for qrId and again for generatedAt
generate_qr_payload(meal_type, date_str, t1, t2) ==
    [type |-> "admin_attendance",
     mealType |-> meal_type,
     date |-> date_str,
     qrId |-> <<meal_type, date_str, t1>>,
     generatedAt |-> t2]

\* json.dumps(payload)
JsonDumps(payload) ==
    << <<"type", payload.type>>, <<"mealType", payload.mealType>>,
       <<"date", payload.date>>, <<"qrId", payload.qrId>>,
       <<"generatedAt", payload.generatedAt>> >>

\* the document of doc_ref.set (createdAt left out)
QRDoc(meal_type, date_str, qr_data, payload) ==
    [mealType |-> meal_type, date |-> date_str, qrData |-> qr_data,
     qrId |-> payload.qrId]

\* QRResponse(success=True, qr_data=..., meal_type=..., date=...)
QRSuccess(qr_data, meal_type, date_str) ==
    [status |-> 200,
     body |-> [success |-> TRUE, qr_data |-> Some(qr_data),
               meal_type |-> Some(meal_type), date |-> Some(date_str),
               error |-> None]]

\* QRResponse(success=False, error=...)
QRError(error) ==
    [status |-> 200,
     body |-> [success |-> FALSE, qr_data |-> None, meal_type |-> None,
               date |-> None, error |-> Some(error)]]

\* raise HTTPException(status_code=400, detail=...)
QRInvalid(detail) == [status |-> 400, body |-> [detail |-> detail]]

\* collection.document(doc_id).delete()
Delete(docs, doc_id) == [d \in DOMAIN docs \ {doc_id} |-> docs[d]]

\* the call has run and got its answer
Answer(endpoint, force_refresh, answer) ==
    /\ qr_calls' = qr_calls + 1
    /\ qr_responses' = qr_responses \cup
          {[call |-> qr_calls + 1, endpoint |-> endpoint,
            force_refresh |-> force_refresh, answer |-> answer]}

\* nothing but the QR endpoints is in use
InitQR ==
    /\ detections = NotYet
    /\ image_shape = NotYet
    /\ food_counts = NotYet
    /\ waste_analysis = NotYet
    /\ food_details = NotYet
    /\ user_insight = NotYet
    /\ admin_insight = NotYet
    /\ pc = "serving"
    /\ enabled = FALSE
    /\ EnrichmentIdle
    /\ ReportIdle
    /\ WeeklyIdle
    /\ requests = <<>>
    /\ QRIdle

\* what the QR endpoints leave alone
qr_others == <<analysis_vars, pc, enrich_vars, report_vars, weekly_vars, requests>>

\* a millisecond passes
Tick ==
    /\ qr_clock < MaxClock
    /\ qr_clock' = qr_clock + 1
    /\ UNCHANGED <<qr_docs, qr_today, qr_calls, qr_responses, qr_others>>

\* the day ends
Midnight ==
    /\ qr_today < LastDay
    /\ qr_today' = qr_today + 1
    /\ UNCHANGED <<qr_docs, qr_clock, qr_calls, qr_responses, qr_others>>

\* a variant that generates without looking for today's QR
GenerateQR_AlwaysNew(request) ==
    /\ qr_calls < MaxCalls
    /\ LET meal_type == Lower(request.meal_type)
           date_str == qr_today
           doc_id == QRDocId(meal_type, date_str)
       IN  IF ~ValidMeal(meal_type)
           THEN /\ Answer("generate", request.force_refresh,
                          QRInvalid("Invalid meal_type. Must be breakfast, lunch, or dinner."))
                /\ UNCHANGED qr_docs
           ELSE \E t2 \in {qr_clock, qr_clock + 1} :
                  LET payload == generate_qr_payload(meal_type, date_str,
                                                     qr_clock, t2)
                      qr_data == JsonDumps(payload)
                  IN  /\ qr_docs' = Put(qr_docs, doc_id,
                                        QRDoc(meal_type, date_str, qr_data, payload))
                      /\ Answer("generate", request.force_refresh,
                                QRSuccess(qr_data, meal_type, date_str))
    /\ UNCHANGED <<qr_clock, qr_today, qr_others>>

\* generate_qr, from its first line to its return
GenerateQR(request) ==
    /\ qr_calls < MaxCalls
    /\ LET meal_type == Lower(request.meal_type)
           date_str == qr_today
           doc_id == QRDocId(meal_type, date_str)
       IN  IF ~ValidMeal(meal_type)
           THEN /\ Answer("generate", request.force_refresh,
                          QRInvalid("Invalid meal_type. Must be breakfast, lunch, or dinner."))
                /\ UNCHANGED qr_docs
           ELSE IF ~request.force_refresh /\ doc_id \in DOMAIN qr_docs
           THEN /\ Answer("generate", request.force_refresh,
                          QRSuccess(qr_docs[doc_id].qrData, meal_type, date_str))
                /\ UNCHANGED qr_docs
           ELSE \E t2 \in {qr_clock, qr_clock + 1} :
                  LET kept == IF request.force_refresh
                              THEN Delete(qr_docs, doc_id) ELSE qr_docs
                      payload == generate_qr_payload(meal_type, date_str,
                                                     qr_clock, t2)
                      qr_data == JsonDumps(payload)
                  IN  /\ qr_docs' = Put(kept, doc_id,
                                        QRDoc(meal_type, date_str, qr_data, payload))
                      /\ Answer("generate", request.force_refresh,
                                QRSuccess(qr_data, meal_type, date_str))
    /\ UNCHANGED <<qr_clock, qr_today, qr_others>>

\* get_qr, from its first line to its return
GetQR(input) ==
    /\ qr_calls < MaxCalls
    /\ LET meal_type == Lower(input)
           date_str == qr_today
           doc_id == QRDocId(meal_type, date_str)
       IN  IF ~ValidMeal(meal_type)
           THEN Answer("get", FALSE, QRInvalid("Invalid meal_type."))
           ELSE IF doc_id \in DOMAIN qr_docs
           THEN Answer("get", FALSE,
                       QRSuccess(qr_docs[doc_id].qrData, meal_type, date_str))
           ELSE Answer("get", FALSE,
                       QRError("No QR code generated for this meal yet"))
    /\ UNCHANGED <<qr_docs, qr_clock, qr_today, qr_others>>

\* QRGenerateRequest
QRGenerateRequests == [meal_type : MealInputs, force_refresh : BOOLEAN]

NextQR ==
    \/ Tick
    \/ Midnight
    \/ \E request \in QRGenerateRequests : GenerateQR(request)
    \/ \E input \in MealInputs : GetQR(input)

\* the QR endpoints under any sequence of calls
SpecQR == InitQR /\ [][NextQR]_vars

-----------------------------------------------------------------------------
(* Vocabulary of the properties, stated on the inputs and not through the   *)
(* operators above                                                          *)

Analysed == pc \in {"details", "user", "admin", "done"}

Detailed == pc \in {"user", "admin", "done"}

IsPlateLabel(l) == l \in {"plate", "Plate", "PLATE"}

PlateIdx == { i \in DOMAIN detections : IsPlateLabel(detections[i].class_name) }

FoodIdx == DOMAIN detections \ PlateIdx

BoxArea(i) ==
    LET b == detections[i].bbox IN (b[3] - b[1]) * (b[4] - b[2])

\* every box has x2 >= x1 and y2 >= y1
WellFormed ==
    \A i \in DOMAIN detections :
        LET b == detections[i].bbox IN b[3] >= b[1] /\ b[4] >= b[2]

RECURSIVE SumOver(_)
SumOver(I) ==
    IF I = {} THEN 0
    ELSE LET i == CHOOSE j \in I : TRUE IN BoxArea(i) + SumOver(I \ {i})

\* the plain sum of the food boxes' areas
FoodAreaSum == SumOver(FoodIdx)

Severity(level) ==
    CASE level = "NONE" -> 0
      [] level = "LOW" -> 1
      [] level = "MEDIUM" -> 2
      [] level = "HIGH" -> 3

\* C1: the waste level is the step function of the computed coverage with the
\* lower-inclusive boundaries 10, 30 and 60, and among the analyses of other
\* inputs a coverage at least as large never has a lower severity.
C1_WasteLevelSteps ==
    Analysed =>
        LET cov == Coverage(detections, image_shape)
            level == waste_analysis.waste_level
        IN  /\ RatGE(cov, 60) => level = "HIGH"
            /\ RatGE(cov, 30) /\ ~RatGE(cov, 60) => level = "MEDIUM"
            /\ RatGE(cov, 10) /\ ~RatGE(cov, 30) => level = "LOW"
            /\ ~RatGE(cov, 10) => level = "NONE"
            /\ pc = "details" =>
                 \A other \in SeqUpTo(GeometryDets, 1) :
                    LET c2 == Coverage(other, image_shape)
                        l2 == analyze_plate_coverage(other, image_shape).waste_level
                    IN  /\ RatLE(cov, c2) => Severity(level) <= Severity(l2)
                        /\ RatLE(c2, cov) => Severity(l2) <= Severity(level)

\* C1's case: a coverage of exactly 60 was classified
C1_Witness ==
    /\ pc = "done"
    /\ Coverage(detections, image_shape) = Rat(60, 1)
    /\ waste_analysis.waste_level = "HIGH"

\* C2: with well-formed boxes the coverage, computed and reported, lies in
\* [0, 100] (reported: 0 to 1000 tenths), also when the food area exceeds
\* the plate area.
C2_CoverageClamped ==
    Analysed /\ WellFormed =>
        LET cov == Coverage(detections, image_shape)
        IN  /\ RatGE(cov, 0) /\ ~RatGT(cov, 100)
            /\ waste_analysis.coverage_percent \in 0..1000

\* C2's case: the summed food area exceeds a positive plate area
C2_Witness ==
    /\ pc = "done"
    /\ WellFormed
    /\ waste_analysis.plate_area_px > 0
    /\ FoodAreaSum > waste_analysis.plate_area_px
    /\ waste_analysis.coverage_percent = 1000

\* the plate area the properties expect: the last plate-labelled box, or 70%
\* of the image
ExpectedPlateArea ==
    IF PlateIdx = {}
    THEN Rat(7 * image_shape[1] * image_shape[2], 10)
    ELSE Rat(BoxArea(CHOOSE i \in PlateIdx : \A j \in PlateIdx : j <= i), 1)

\* min(100, 100 * food / plate) for a positive plate area
ExpectedCoverage ==
    LET raw == Rat(100 * FoodAreaSum * ExpectedPlateArea.d, ExpectedPlateArea.n)
    IN  IF RatGT(raw, 100) THEN Rat(100, 1) ELSE raw

\* C3: for a positive plate area the coverage is min(100, 100 * food / plate)
\* with food the plain sum of the non-plate boxes' areas (no deduplication);
\* plate (0,0,200,200) with food (20,20,100,100) gives 40000, 6400, 16.0, LOW.
C3_CoverageFormula ==
    /\ Analysed /\ ExpectedPlateArea.n > 0 =>
         /\ waste_analysis.total_food_area_px = FoodAreaSum
         /\ waste_analysis.coverage_percent = Round1(ExpectedCoverage)
         /\ LET cov == Coverage(detections, image_shape)
            IN  RatLE(cov, ExpectedCoverage) /\ RatLE(ExpectedCoverage, cov)
    /\ Analysed
       /\ detections = << Det("Plate", 9100, <<0, 0, 200, 200>>),
                          Det("Rice", 8734, <<20, 20, 100, 100>>) >>
       => /\ waste_analysis.plate_area_px = 40000
          /\ waste_analysis.total_food_area_px = 6400
          /\ waste_analysis.coverage_percent = 160
          /\ waste_analysis.waste_level = "LOW"

\* C3's case: two identical food boxes on a plate, counted twice
C3_Witness ==
    /\ pc = "done"
    /\ detections = << Det("Plate", 9100, <<0, 0, 200, 200>>),
                       Det("Rice", 8734, <<20, 20, 100, 100>>),
                       Det("Rice", 8734, <<20, 20, 100, 100>>) >>
    /\ waste_analysis.total_food_area_px = 12800
    /\ waste_analysis.coverage_percent = 320

\* C4: without a plate-labelled detection (in any letter case) the plate area
\* is 0.7 * height * width, with one it is the area of a plate-labelled box,
\* and plate_detected tells which.
C4_PlateArea ==
    Analysed =>
        LET plate_area == PlateArea(Partition(detections).plate_bbox, image_shape)
        IN  /\ waste_analysis.plate_detected <=> PlateIdx # {}
            /\ PlateIdx = {} =>
                 /\ plate_area = Rat(7 * image_shape[1] * image_shape[2], 10)
                 /\ waste_analysis.plate_area_px =
                      RoundHalfEven(7 * image_shape[1] * image_shape[2], 10)
            /\ PlateIdx # {} =>
                 \E i \in PlateIdx :
                    /\ plate_area = Rat(BoxArea(i), 1)
                    /\ waste_analysis.plate_area_px = BoxArea(i)

\* C4's case: no plate in a 100 x 150 image, the estimate 10500 was used
C4_Witness ==
    /\ pc = "done"
    /\ detections # <<>>
    /\ PlateIdx = {}
    /\ image_shape = <<100, 150>>
    /\ ~waste_analysis.plate_detected
    /\ waste_analysis.plate_area_px = 10500

\* the detections at the indices I, in their order
RECURSIVE Pick(_, _)
Pick(i, I) ==
    IF i > Len(detections) THEN <<>>
    ELSE (IF i \in I THEN <<detections[i]>> ELSE <<>>) \o Pick(i + 1, I)

FirstPlate == CHOOSE i \in PlateIdx : \A j \in PlateIdx : i <= j

LastPlate == CHOOSE i \in PlateIdx : \A j \in PlateIdx : j <= i

\* C5 as stated: with several plate-labelled detections the FIRST one's box
\* is the plate area, and the later plates change nothing.
C5_FirstPlateUsed ==
    Analysed /\ Cardinality(PlateIdx) > 1 =>
        /\ waste_analysis.plate_area_px = BoxArea(FirstPlate)
        /\ waste_analysis =
             analyze_plate_coverage(Pick(1, FoodIdx \cup {FirstPlate}), image_shape)

\* C5 as amended: with several plate-labelled detections the LAST one's box
\* is the plate area, and the earlier plates change neither plate_area nor
\* coverage_percent.
C5_LastPlateUsed ==
    Analysed /\ Cardinality(PlateIdx) > 1 =>
        /\ waste_analysis.plate_area_px = BoxArea(LastPlate)
        /\ waste_analysis =
             analyze_plate_coverage(Pick(1, FoodIdx \cup {LastPlate}), image_shape)

\* C5's case: two plates of different areas and some food were analysed
C5_Witness ==
    /\ pc = "done"
    /\ Cardinality(PlateIdx) > 1
    /\ FoodIdx # {}
    /\ BoxArea(FirstPlate) # BoxArea(LastPlate)
    /\ BoxArea(FirstPlate) > 0 /\ BoxArea(LastPlate) > 0
    /\ waste_analysis.plate_area_px = BoxArea(LastPlate)

Degenerate(b) == b[3] <= b[1] \/ b[4] <= b[2]

\* C6 as stated: the area of a box is (x2-x1)*(y2-y1) when it is proper and 0
\* when x2 <= x1 or y2 <= y1; seen in total_food_area_px when the box is the
\* only food item.
C6_DegenerateAreaZero ==
    Analysed /\ Cardinality(FoodIdx) = 1 =>
        LET i == CHOOSE j \in FoodIdx : TRUE
            b == detections[i].bbox
        IN  /\ calculate_box_area(b) =
                 IF Degenerate(b) THEN 0 ELSE (b[3] - b[1]) * (b[4] - b[2])
            /\ waste_analysis.total_food_area_px =
                 IF Degenerate(b) THEN 0 ELSE (b[3] - b[1]) * (b[4] - b[2])

\* the level the thresholds give for a reported coverage (tenths)
ReportedLevel(tenths) ==
    IF tenths >= 600 THEN "HIGH"
    ELSE IF tenths >= 300 THEN "MEDIUM"
    ELSE IF tenths >= 100 THEN "LOW"
    ELSE "NONE"

\* C7 as stated: the waste level is a function of the reported (rounded)
\* coverage_percent, and a reported value of at least 10 / 30 / 60 never goes
\* with a level below LOW / MEDIUM / HIGH.
C7_LevelOfReportedCoverage ==
    Analysed => waste_analysis.waste_level = ReportedLevel(waste_analysis.coverage_percent)

\* C7 as amended: the waste level is decided by the unrounded coverage; it is
\* the level of the reported value unless that value is exactly 10.0, 30.0 or
\* 60.0, where it may also be the next lower level (the coverage was rounded
\* up to the boundary).
C7_LevelOfReportedOffBoundary ==
    Analysed =>
        LET r == waste_analysis.coverage_percent
            level == waste_analysis.waste_level
        IN  /\ level = WasteLevel(Coverage(detections, image_shape))
            /\ r \notin {100, 300, 600} => level = ReportedLevel(r)
            /\ r \in {100, 300, 600} =>
                 level \in {ReportedLevel(r), ReportedLevel(r - 1)}

\* C7's case: a coverage of 9.975 is reported as 10.0 and classified NONE
C7_Witness ==
    /\ pc = "done"
    /\ waste_analysis.coverage_percent = 100
    /\ waste_analysis.waste_level = "NONE"
    /\ Coverage(detections, image_shape) = Rat(3990, 400)

\* C8 as stated: with well-formed boxes the record's plate_area_px is strictly
\* positive, also for a plate box of zero width or height.
C8_PlateAreaPositive ==
    Analysed /\ WellFormed => waste_analysis.plate_area_px > 0

\* the food detections' indices in order
RECURSIVE FoodOrder(_)
FoodOrder(i) ==
    IF i > Len(detections) THEN <<>>
    ELSE (IF i \in FoodIdx THEN <<i>> ELSE <<>>) \o FoodOrder(i + 1)

\* C9 as stated: Small below 15000, Medium from 15000 to below 40000, Large
\* from 40000 on.
C9_PortionLowerInclusive ==
    Detailed =>
        LET order == FoodOrder(1)
        IN  /\ Len(food_details) = Len(order)
            /\ \A k \in DOMAIN order :
                 LET area == BoxArea(order[k])
                 IN  food_details[k].portion_size =
                       IF area < 15000 THEN "Small"
                       ELSE IF area < 40000 THEN "Medium"
                       ELSE "Large"

\* C9 as amended: Small up to and including 15000, Medium above 15000 up to
\* and including 40000, Large above 40000, whatever the image size.
C9_PortionUpperInclusive ==
    Detailed =>
        LET order == FoodOrder(1)
        IN  /\ Len(food_details) = Len(order)
            /\ \A k \in DOMAIN order :
                 LET area == BoxArea(order[k])
                 IN  food_details[k].portion_size =
                       IF area <= 15000 THEN "Small"
                       ELSE IF area <= 40000 THEN "Medium"
                       ELSE "Large"

\* C9's case: boxes of exactly 15000 and exactly 40000 px were bucketed
C9_Witness ==
    /\ pc = "done"
    /\ \E k \in DOMAIN food_details :
         /\ BoxArea(FoodOrder(1)[k]) = 15000
         /\ food_details[k].portion_size = "Small"
    /\ \E k \in DOMAIN food_details :
         /\ BoxArea(FoodOrder(1)[k]) = 40000
         /\ food_details[k].portion_size = "Medium"

\* the distinct food labels in the order of their first detection
RECURSIVE FirstSeen(_, _)
FirstSeen(i, seen) ==
    IF i > Len(detections) THEN seen
    ELSE LET l == detections[i].class_name
         IN  IF IsPlateLabel(l) \/ (\E k \in DOMAIN seen : seen[k] = l)
             THEN FirstSeen(i + 1, seen)
             ELSE FirstSeen(i + 1, Append(seen, l))

TemplateOf(level) ==
    CASE level = "NONE" -> "Great job"
      [] level = "LOW" -> "Well done"
      [] level = "MEDIUM" -> "Consider smaller portions"
      [] level = "HIGH" -> "Significant food waste detected"

\* C10: the user message's template is decided by waste_level alone (four
\* levels, four different templates), and for MEDIUM and HIGH it lists exactly
\* the first min(3, n) distinct food labels in first-detected order.
C10_UserInsight ==
    pc \in {"admin", "done"} =>
        LET level == waste_analysis.waste_level
            labels == FirstSeen(1, <<>>)
            n == Len(labels)
        IN  /\ user_insight.template = TemplateOf(level)
            /\ Cardinality({TemplateOf(l) : l \in {"NONE", "LOW", "MEDIUM", "HIGH"}}) = 4
            /\ level \in {"MEDIUM", "HIGH"} =>
                 user_insight.items = SubSeq(labels, 1, IF n < 3 THEN n ELSE 3)

\* C10's case: a HIGH plate with more than three distinct labels, the first
\* of them detected twice, lists three
C10_Witness ==
    /\ pc = "done"
    /\ waste_analysis.waste_level = "HIGH"
    /\ Len(FirstSeen(1, <<>>)) > 3
    /\ Len(detections) > Len(FirstSeen(1, <<>>))
    /\ Len(user_insight.items) = 3

\* number of detections of a food label
CountOf(l) == Cardinality({ i \in FoodIdx : detections[i].class_name = l })

\* position of a label in the first-seen order
SeenAt(l) ==
    LET labels == FirstSeen(1, <<>>)
    IN  CHOOSE k \in DOMAIN labels : labels[k] = l

\* C11: items_left holds every food label once with its count, ordered by
\* count descending, equal counts in first-seen order; most_wasted_item is
\* the first label of that order, or None when nothing was counted.
C11_ItemsLeftOrder ==
    pc = "done" =>
        LET items == admin_insight.items_left
            labels == FirstSeen(1, <<>>)
        IN  /\ Len(items) = Len(labels)
            /\ \A k \in DOMAIN labels :
                 \E a \in DOMAIN items : items[a][1] = labels[k]
            /\ \A a \in DOMAIN items : items[a][2] = CountOf(items[a][1])
            /\ \A a, b \in DOMAIN items :
                 a < b =>
                    \/ items[a][2] > items[b][2]
                    \/ /\ items[a][2] = items[b][2]
                       /\ SeenAt(items[a][1]) < SeenAt(items[b][1])
            /\ admin_insight.most_wasted_item =
                 (IF labels = <<>> THEN <<>> ELSE <<items[1][1]>>)
            /\ (food_counts = <<>>) = (labels = <<>>)

\* C11's case: two labels tie behind a label that was seen later but counted
\* more often, so the sort both moved an item and kept a tie in place
C11_Witness ==
    /\ pc = "done"
    /\ Len(admin_insight.items_left) >= 3
    /\ admin_insight.items_left # food_counts
    /\ \E a, b \in DOMAIN admin_insight.items_left :
         /\ a < b
         /\ admin_insight.items_left[a][2] = admin_insight.items_left[b][2]
    /\ admin_insight.most_wasted_item # <<>>
    /\ admin_insight.most_wasted_item[1] # food_counts[1][1]

RiceTip == "Consider reducing default rice portion size"

RotiTip == "Offer rotis on-demand rather than pre-plated"

TooManyTip == "Too many items may lead to waste - consider combo meals"

SignageTip == "Display waste awareness signage near serving area"

Range(seq) == { seq[k] : k \in DOMAIN seq }

\* the food labels that were counted
FoodLabels == { detections[i].class_name : i \in FoodIdx }

\* C12: on a MEDIUM or HIGH plate the recommendations hold the rice tip iff
\* "Rice" was counted, the roti tip iff "Roti" was counted, the too-many-items
\* tip iff more than 4 distinct labels were counted, always the signage tip,
\* each once and nothing else; with Rice and Roti among at most 4 labels the
\* list is exactly rice tip, roti tip, signage tip.
C12_Recommendations ==
    (pc = "done" /\ waste_analysis.waste_level \in {"MEDIUM", "HIGH"}) =>
        LET recs == admin_insight.recommendations
        IN  /\ (RiceTip \in Range(recs)) = ("Rice" \in FoodLabels)
            /\ (RotiTip \in Range(recs)) = ("Roti" \in FoodLabels)
            /\ (TooManyTip \in Range(recs)) = (Cardinality(FoodLabels) > 4)
            /\ SignageTip \in Range(recs)
            /\ Range(recs) \subseteq {RiceTip, RotiTip, TooManyTip, SignageTip}
            /\ Len(recs) = Cardinality(Range(recs))
            /\ ({"Rice", "Roti"} \subseteq FoodLabels /\ Cardinality(FoodLabels) <= 4)
                 => recs = <<RiceTip, RotiTip, SignageTip>>

\* C12's case: a plate with exactly four distinct labels, Rice and Roti among
\* them, gets the three tips and not the too-many-items tip
C12_Witness ==
    /\ pc = "done"
    /\ waste_analysis.waste_level \in {"MEDIUM", "HIGH"}
    /\ Cardinality(FoodLabels) = 4
    /\ {"Rice", "Roti"} \subseteq FoodLabels
    /\ admin_insight.recommendations = <<RiceTip, RotiTip, SignageTip>>

\* C13: action_required is true exactly on MEDIUM and HIGH plates, the
\* recommendation list is empty exactly on NONE and LOW plates, and so
\* action_required holds iff the list is non-empty.
C13_ActionRequired ==
    pc = "done" =>
        LET level == waste_analysis.waste_level
        IN  /\ level \in {"NONE", "LOW", "MEDIUM", "HIGH"}
            /\ admin_insight.waste_level = level
            /\ admin_insight.action_required = (level \in {"MEDIUM", "HIGH"})
            /\ (admin_insight.recommendations = <<>>) = (level \in {"NONE", "LOW"})
            /\ admin_insight.action_required =
                 (admin_insight.recommendations # <<>>)

\* C13's case: a LOW plate on which Rice was counted gets no rice tip and no
\* action
C13_Witness ==
    /\ pc = "done"
    /\ waste_analysis.waste_level = "LOW"
    /\ "Rice" \in FoodLabels
    /\ admin_insight.recommendations = <<>>
    /\ ~admin_insight.action_required

\* the ways in which the calls of gemini_service that ended have ended
OutcomesOf(call) ==
    { gemini_log[k].outcome : k \in { j \in DOMAIN gemini_log : gemini_log[j].call = call } }

\* the /analyze answer that rests on the local analysis alone
LocalAnswer ==
    [status |-> 200,
     body |-> [success |-> TRUE,
               image_size |-> [width |-> image_shape[2], height |-> image_shape[1]],
               food_summary |-> food_counts,
               food_details |-> food_details,
               waste_analysis |-> waste_analysis,
               user_insight |-> [message |-> user_insight],
               admin_insight |->
                  [waste_level |-> admin_insight.waste_level,
                   coverage_percent |-> admin_insight.coverage_percent,
                   items_left |-> admin_insight.items_left,
                   most_wasted_item |-> admin_insight.most_wasted_item,
                   total_items_remaining |-> admin_insight.total_items_remaining,
                   recommendations |-> admin_insight.recommendations,
                   action_required |-> admin_insight.action_required,
                   ai_summary |-> <<>>]]]

\* C14: an /analyze answer given after the enrichment calls raised is the
\* answer given with enrichment disabled for the same plate: user_insight is
\* the local message and admin_insight the local report with no AI summary;
\* a single call that raised leaves its own part of the answer local.
C14_FailureLikeDisabled ==
    pc = "responded" =>
        /\ (OutcomesOf("generate_user_insight") \subseteq {"raised", "disabled"}
            /\ OutcomesOf("generate_admin_insight") \subseteq {"raised", "disabled"})
              => response = LocalAnswer
        /\ OutcomesOf("generate_user_insight") = {"raised"}
              => response.body.user_insight = LocalAnswer.body.user_insight
        /\ (response.body.success
            /\ OutcomesOf("generate_admin_insight") = {"raised"})
              => response.body.admin_insight = LocalAnswer.body.admin_insight

\* C14's case: enrichment is enabled, both calls raised, and an answer with
\* food on the plate was given
C14_Witness ==
    /\ pc = "responded"
    /\ enabled
    /\ OutcomesOf("generate_user_insight") = {"raised"}
    /\ OutcomesOf("generate_admin_insight") = {"raised"}
    /\ response.body.success
    /\ food_counts # <<>>
    /\ admin_insight.action_required

\* a response has been sent
Answered == pc \in {"responded", "reported"}

\* C15: with enrichment disabled, raising, or answering with text that is
\* not JSON, /analyze and /generate-ai-insights still answer success = true
\* with the local message, the local report or the fallback insights; the
\* only enrichment outcome that makes an error response is the
\* INVALID_IMAGE answer to the user-insight call.
C15_EnrichmentFailureTolerated ==
    Answered =>
        /\ response.body.success = FALSE =>
              /\ pc = "responded"
              /\ OutcomesOf("generate_user_insight") = {"text"}
              /\ ai_user_insight = <<"INVALID_IMAGE">>
        /\ (pc = "responded"
            /\ OutcomesOf("generate_user_insight") \subseteq {"disabled", "raised"}) =>
              /\ response.status = 200 /\ response.body.success
              /\ response.body.user_insight = [message |-> user_insight]
              /\ response.body.waste_analysis = waste_analysis
        /\ (pc = "responded" /\ response.body.success
            /\ OutcomesOf("generate_admin_insight") \subseteq {"disabled", "raised"}) =>
              /\ response.body.admin_insight.ai_summary = <<>>
              /\ \A f \in DOMAIN admin_insight :
                    response.body.admin_insight[f] = admin_insight[f]
        /\ (pc = "reported"
            /\ OutcomesOf("generate_structured_insights")
                 \subseteq {"disabled", "raised", "malformed"}) =>
              /\ response.status = 200 /\ response.body.success
              /\ aggregated_data.totalFeedback > 0 =>
                    /\ OutcomesOf("generate_structured_insights") # {}
                    /\ response.body.insights =
                         [issues |-> <<>>, improvements |-> <<>>,
                          wellPerforming |-> <<>>,
                          summary |-> <<"AI analysis temporarily unavailable. Please try again later.">>]

\* C15's case: the service answered the structured-insights prompt with text
\* that is not JSON, and the request succeeded with the fallback insights
C15_Witness ==
    /\ pc = "reported"
    /\ enabled
    /\ OutcomesOf("generate_structured_insights") = {"malformed"}
    /\ response.body.success
    /\ response.body.insights.issues = <<>>
    /\ aggregated_data.totalFeedback > 1

\* C16: every /analyze request whose local analysis has completed is
\* eventually answered, also when the enrichment service never answers: the
\* wait for it is bounded by a timeout of the request.
C16_AnalyzeEventuallyAnswers == (pc = "done") ~> (pc = "responded")

\* C17: when the user-insight call returns INVALID_IMAGE the /analyze answer
\* is a rejection: success false, error INVALID_IMAGE, status 400, with no
\* waste analysis and no insight in it and no admin-report call made; no
\* successful answer shows the sentinel as user_insight.
C17_InvalidImageRejected ==
    pc = "responded" =>
        /\ ai_user_insight = <<"INVALID_IMAGE">> =>
              /\ response.status = 400
              /\ response.body.success = FALSE
              /\ response.body.error = "INVALID_IMAGE"
              /\ DOMAIN response.body = {"success", "error", "message"}
              /\ OutcomesOf("generate_admin_insight") = {}
        /\ response.body.success =>
              /\ ai_user_insight # <<"INVALID_IMAGE">>
              /\ response.body.user_insight # [text |-> "INVALID_IMAGE"]

\* C17's case: the local analysis found food on a plate, the service called
\* the photo invalid, and the request was rejected
C17_Witness ==
    /\ pc = "responded"
    /\ ai_user_insight = <<"INVALID_IMAGE">>
    /\ waste_analysis.plate_detected
    /\ food_counts # <<>>
    /\ response.body.success = FALSE
    /\ response.status = 400

\* C18: an /analyze request whose detector output is empty, or holds a box
\* with x2 <= x1 or y2 <= y1, is answered with a rejection, never with a
\* successful analysis.
C18_BadDetectionsRejected ==
    (pc = "responded"
     /\ (detections = <<>>
         \/ \E i \in DOMAIN detections : Degenerate(detections[i].bbox)))
        => response.body.success = FALSE

\* the averages have been calculated and nothing else has happened yet
Finalized == pc = "guard"

\* the documents of the stream in another order
Reordered(p) == [i \in DOMAIN feedback_docs |-> feedback_docs[p[i]]]

\* how often an entry occurs in a list
Occurrences(list, entry) == Cardinality({ k \in DOMAIN list : list[k] = entry })

\* the same entries, each as often, in any order
SameEntries(a, b) ==
    /\ Len(a) = Len(b)
    /\ \A k \in DOMAIN a : Occurrences(a, a[k]) = Occurrences(b, a[k])

\* the document carries a comment that is not blank
HasComment(data) == Strip(CommentOf(data)) # ""

\* C19 as claimed: the finalized aggregation (totalFeedback, mealTypes,
\* comments, ratingAverages, wasteAnalysis) is the same for every order of
\* the same documents.
C19_OrderIndependent ==
    Finalized =>
        \A p \in Permutations(DOMAIN feedback_docs) :
            Aggregate(Reordered(p), time_range) = aggregated_data

\* every coverage of the stream is a whole percent (the ratings of the
\* documents are whole numbers by construction), so the sums are exact
WholeNumbers ==
    \A i \in DOMAIN feedback_docs :
        LET waste == feedback_docs[i].wasteAnalysis
        IN  waste # None => Get(waste[1], "coveragePercent", 0) % 10 = 0

\* C19 amended: totalFeedback, mealTypes and the counts of wasteAnalysis are
\* the same for every order of the same documents, and so are ratingAverages
\* and avgCoveragePercent when the ratings and coverages are whole numbers;
\* comments holds the same entries for every order, listed in the order of
\* the documents.
C19_OrderIndependentButComments ==
    Finalized =>
        /\ \A p \in Permutations(DOMAIN feedback_docs) :
              LET other == Aggregate(Reordered(p), time_range)
                  waste == other.wasteAnalysis
                  mine == aggregated_data.wasteAnalysis
              IN  /\ other.totalFeedback = aggregated_data.totalFeedback
                  /\ other.mealTypes = aggregated_data.mealTypes
                  /\ waste.totalAnalyses = mine.totalAnalyses
                  /\ waste.wasteLevelCounts = mine.wasteLevelCounts
                  /\ waste.foodItemsWasted = mine.foodItemsWasted
                  /\ WholeNumbers =>
                        /\ other.ratingAverages = aggregated_data.ratingAverages
                        /\ waste.avgCoveragePercent = mine.avgCoveragePercent
                  /\ SameEntries(other.comments, aggregated_data.comments)
        /\ LET commented == SelectSeq(feedback_docs, HasComment)
           IN  /\ Len(aggregated_data.comments) = Len(commented)
               /\ \A k \in DOMAIN commented :
                     aggregated_data.comments[k].text
                        = Truncate200(CommentOf(commented[k]))

\* C19's case: three different documents, two of them with a comment and two
\* with a waste analysis of the same food item, whose comments come out in
\* another order when the documents do
C19_Witness ==
    /\ Finalized
    /\ Len(feedback_docs) = 3
    /\ Cardinality(Range(feedback_docs)) = 3
    /\ Len(aggregated_data.comments) >= 2
    /\ aggregated_data.wasteAnalysis.totalAnalyses >= 2
    /\ \E item \in DOMAIN aggregated_data.wasteAnalysis.foodItemsWasted :
          aggregated_data.wasteAnalysis.foodItemsWasted[item] >= 3
    /\ \E p \in Permutations(DOMAIN feedback_docs) :
          Aggregate(Reordered(p), time_range).comments # aggregated_data.comments

\* the documents with a numeric rating of a category
Rated(key) ==
    { i \in DOMAIN feedback_docs :
        /\ feedback_docs[i].ratings # <<>>
        /\ key \in DOMAIN feedback_docs[i].ratings[1]
        /\ "num" \in DOMAIN feedback_docs[i].ratings[1][key] }

\* the documents with a waste sub-record that is not empty
Wasteful ==
    { i \in DOMAIN feedback_docs :
        /\ feedback_docs[i].wasteAnalysis # <<>>
        /\ DOMAIN feedback_docs[i].wasteAnalysis[1] # {} }

\* C20: finalization divides by no zero: it completes for every stream, the
\* empty one included; a rating category without a numeric observation
\* finalizes to 0 and a category with observations to a number between the
\* least and the greatest rating; avgCoveragePercent is 0 when no document
\* carried a waste sub-record.
C20_NoDivisionByZero ==
    /\ (pc = "fold" /\ cursor > Len(feedback_docs)) => ENABLED Finalize
    /\ Finalized =>
        /\ \A key \in {"taste", "oil", "quantity", "hygiene"} :
              /\ Rated(key) = {} => aggregated_data.ratingAverages[key] = [num |-> 0]
              /\ Rated(key) # {} =>
                    /\ aggregated_data.ratingAverages[key].num >= 100
                    /\ aggregated_data.ratingAverages[key].num <= 500
        /\ aggregated_data.wasteAnalysis.totalAnalyses = Cardinality(Wasteful)
        /\ Wasteful = {} => aggregated_data.wasteAnalysis.avgCoveragePercent = 0
        /\ aggregated_data.wasteAnalysis.avgCoveragePercent >= 0
        /\ aggregated_data.wasteAnalysis.avgCoveragePercent <= 1000

\* C20's case: several documents, none with a waste analysis that counts
\* (one carries an empty one), a category that was rated and one that was not
C20_Witness ==
    /\ Finalized
    /\ aggregated_data.totalFeedback >= 2
    /\ Wasteful = {}
    /\ \E i \in DOMAIN feedback_docs : feedback_docs[i].wasteAnalysis = <<EmptyDict>>
    /\ aggregated_data.wasteAnalysis.avgCoveragePercent = 0
    /\ \E key \in RatingKeys :
          Rated(key) = {} /\ aggregated_data.ratingAverages[key] = [num |-> 0]
    /\ \E key \in RatingKeys : aggregated_data.ratingAverages[key].num > 0

-----------------------------------------------------------------------------
(* C21: empty windows *)

\* the request is a windowed report or a weekly summary
Reporting == pc \in {"fold", "guard", "await_insights", "reported"}

Summarising == pc \in {"weekly_fold", "await_summary", "summarised", "failed"}

\* C21: when the query of /generate-ai-insights or of either
\* /generate-weekly-summary streams no feedback document, the run ends with
\* totalFeedback = 0 and, for the report, every average 0, answers with the
\* explicit no-data result, and at no point calls the enrichment service or
\* writes a summary document.
C21_EmptyWindow ==
    ((Reporting \/ Summarising) /\ feedback_docs = <<>>) =>
        /\ aggregated_data.totalFeedback = 0
        /\ gemini_log = <<>>
        /\ ai_summaries = <<>>
        /\ pc \notin {"await_insights", "await_summary", "failed"}
        /\ pc \in {"guard", "reported"} =>
              /\ \A key \in {"taste", "oil", "quantity", "hygiene"} :
                    aggregated_data.ratingAverages[key] = [num |-> 0]
              /\ aggregated_data.wasteAnalysis.avgCoveragePercent = 0
        /\ pc = "reported" =>
              /\ response.status = 200
              /\ response.body.success
              /\ response.body.insights =
                    [issues |-> <<>>, improvements |-> <<>>, wellPerforming |-> <<>>,
                     summary |-> <<"No feedback data available for the period",
                                   time_range>>]
              /\ insights = NotYet
        /\ pc = "summarised" =>
              /\ response.status = 200
              /\ response.body.message = "No feedback available"
              /\ response.body.content =
                    "No meal feedback was submitted during this period."
              /\ implementation = "app" => response.body.success
              /\ summary = <<>>

\* C21's case: a weekly summary of the enrichment-enabled app.py answered on
\* an empty collection
C21_Witness ==
    /\ pc = "summarised"
    /\ feedback_docs = <<>>
    /\ implementation = "app"
    /\ enabled
    /\ response.body.message = "No feedback available"

-----------------------------------------------------------------------------
(* C22: concurrent /analyze requests *)

\* the answer to a photo whose request is served alone and gets the same
\* answers from the enrichment service
AloneAnswer(dets, shape, ai_user, ai_admin) ==
    IF ai_user = <<"INVALID_IMAGE">>
    THEN [status |-> 400,
          body |-> [success |-> FALSE,
                    error |-> "INVALID_IMAGE",
                    message |-> "The uploaded photo does not appear to be a food plate. Please upload a clear photo of your meal."]]
    ELSE LET counts == CountFood(dets)
             waste == analyze_plate_coverage(dets, shape)
             local == generate_user_insight(waste, counts)
             report == generate_admin_insight(waste, counts)
         IN  [status |-> 200,
              body |-> [success |-> TRUE,
                        image_size |-> [width |-> shape[2], height |-> shape[1]],
                        food_summary |-> counts,
                        food_details |-> generate_food_details(dets),
                        waste_analysis |-> waste,
                        user_insight |-> IF ai_user # <<>> /\ ai_user # <<"">>
                                         THEN [text |-> ai_user[1]]
                                         ELSE [message |-> local],
                        admin_insight |->
                            [f \in DOMAIN report \cup {"ai_summary"} |->
                                IF f = "ai_summary" THEN ai_admin ELSE report[f]]]]

\* C22: however the /analyze requests in flight interleave at their awaits,
\* the locals of a request are the analysis of its own photo, its response
\* is the one it gets when served alone with the same service answers, and
\* two requests with the same photo and the same service answers get the
\* same response.
C22_RequestsIsolated ==
    /\ \A r \in DOMAIN requests :
          LET me == requests[r]
          IN  /\ me.pc # "read" =>
                    /\ me.food_counts = CountFood(me.detections)
                    /\ me.waste_analysis =
                          analyze_plate_coverage(me.detections, me.image_shape)
                    /\ me.food_details = generate_food_details(me.detections)
              /\ me.pc = "responded" =>
                    /\ me.response = AloneAnswer(me.detections, me.image_shape,
                                                 me.ai_user_insight,
                                                 me.ai_admin_insight)
                    /\ me.response.status = 200 =>
                          me.response.body.waste_analysis.food_items_detected =
                             Cardinality({ i \in DOMAIN me.detections :
                                 me.detections[i].class_name # "Plate" })
    /\ \A r, q \in DOMAIN requests :
          (/\ requests[r].pc = "responded"
           /\ requests[q].pc = "responded"
           /\ requests[r].detections = requests[q].detections
           /\ requests[r].image_shape = requests[q].image_shape
           /\ requests[r].ai_user_insight = requests[q].ai_user_insight
           /\ requests[r].ai_admin_insight = requests[q].ai_admin_insight)
              => requests[r].response = requests[q].response

\* C22's case: two photos with different food in flight together; the first
\* request has been answered while the second, which ran its analysis in
\* between, still awaits the admin report
C22_Witness ==
    /\ requests # <<>>
    /\ requests[1].pc = "responded"
    /\ requests[1].response.status = 200
    /\ requests[2].pc = "await_admin"
    /\ requests[1].food_counts # requests[2].food_counts
    /\ requests[1].food_counts # <<>>
    /\ requests[2].food_counts # <<>>

-----------------------------------------------------------------------------
(* C23: enrichment calls are not repeated *)

\* the enrichment operations, with the position at which the handler awaits
\* each; generate_summary of ai.py has returned or raised when its handler
\* goes on
EnrichmentCalls ==
    { <<"generate_user_insight", "await_user">>,
      <<"generate_admin_insight", "await_admin">>,
      <<"generate_structured_insights", "await_insights">>,
      <<"generate_weekly_summary", "await_summary">>,
      <<"generate_summary", "never awaited">> }

\* how often the request has made the call so far, the pending one included
Attempts(call) ==
    Cardinality({ k \in DOMAIN gemini_log : gemini_log[k].call = call[1] })
        + (IF pc = call[2] THEN 1 ELSE 0)

\* C23: within one request, each enrichment operation (user insight, admin
\* report, structured insights, weekly summary) is attempted at most once;
\* once an attempt has failed (or found the service disabled) the handler
\* is past that call and does not wait for it again.
C23_AtMostOnce ==
    \A call \in EnrichmentCalls :
        /\ Attempts(call) <= 1
        /\ (\E k \in DOMAIN gemini_log :
               /\ gemini_log[k].call = call[1]
               /\ gemini_log[k].outcome \in {"raised", "disabled", "malformed"})
              => pc \notin {call[2], "done", "count", "fold", "weekly_fold"}

\* C23's case: both enrichment calls of an /analyze request raised, each was
\* made once, and the request was answered from the local analysis
C23_Witness ==
    /\ pc = "responded"
    /\ Len(gemini_log) = 2
    /\ gemini_log[1] = [call |-> "generate_user_insight", outcome |-> "raised"]
    /\ gemini_log[2] = [call |-> "generate_admin_insight", outcome |-> "raised"]
    /\ response.status = 200

-----------------------------------------------------------------------------
(* C24: the order of a windowed report *)

RECURSIVE SumOf(_, _)
\* the sum of f over the indices S
SumOf(f, S) ==
    IF S = {} THEN 0
    ELSE LET i == CHOOSE j \in S : TRUE IN f[i] + SumOf(f, S \ {i})

\* the numeric ratings of a category, by document
RatingOf(key) == [i \in Rated(key) |-> feedback_docs[i].ratings[1][key].num]

\* the coverage of the counted waste sub-records in tenths, by document; a
\* sub-record without coveragePercent counts with 0
CoverageOf ==
    [i \in Wasteful |->
        IF "coveragePercent" \in DOMAIN feedback_docs[i].wasteAnalysis[1]
        THEN feedback_docs[i].wasteAnalysis[1].coveragePercent ELSE 0]

\* avg, in 1/scale units, is total / n rounded to the nearest unit
IsMean(avg, scale, total, n) ==
    LET off == avg * n - scale * total
    IN  2 * off <= n /\ -2 * off <= n

\* the averages are the means of what the documents carry
HoldsMeans(averages, coverage) ==
    /\ \A key \in {"taste", "oil", "quantity", "hygiene"} :
          /\ DOMAIN averages[key] = {"num"}
          /\ IF Rated(key) = {} THEN averages[key].num = 0
             ELSE IsMean(averages[key].num, 100, SumOf(RatingOf(key), Rated(key)),
                         Cardinality(Rated(key)))
    /\ IF Wasteful = {} THEN coverage = 0
       ELSE IsMean(coverage, 1, SumOf(CoverageOf, Wasteful), Cardinality(Wasteful))

-----------------------------------------------------------------------------
(* C25: the waste-level histogram *)

\* C25 as claimed: once the documents of a window are read, every document
\* with a waste sub-record has been counted in exactly one of the four
\* buckets: NONE + LOW + MEDIUM + HIGH = totalAnalyses, and totalAnalyses is
\* the number of documents that carry a waste sub-record (an empty
\* sub-record taken as none).
C25_HistogramComplete ==
    (pc \in {"guard", "await_insights", "reported"}) =>
        LET counts == aggregated_data.wasteAnalysis.wasteLevelCounts
        IN  /\ counts["NONE"] + counts["LOW"] + counts["MEDIUM"] + counts["HIGH"]
                  = aggregated_data.wasteAnalysis.totalAnalyses
            /\ aggregated_data.wasteAnalysis.totalAnalyses = Cardinality(Wasteful)

-----------------------------------------------------------------------------
(* C26: wasted food items and the average coverage *)

\* the documents whose counted waste sub-record names the food item
Wasting(label) ==
    { i \in Wasteful :
        /\ "foodItems" \in DOMAIN feedback_docs[i].wasteAnalysis[1]
        /\ label \in DOMAIN feedback_docs[i].wasteAnalysis[1].foodItems }

\* the wasted count of the food item, by document
WastedOf(label) ==
    [i \in Wasting(label) |-> feedback_docs[i].wasteAnalysis[1].foodItems[label]]

-----------------------------------------------------------------------------
(* C27: a failing summary service *)

\* C27 as claimed: in both /generate-weekly-summary implementations, when the
\* generative service raises while a collection with feedback is summarised,
\* the request still answers 200 with a summary string and the
\* weekly_summary document is written.
C27_SummaryFailureTolerated ==
    (/\ Summarising
     /\ \E k \in DOMAIN gemini_log : gemini_log[k].outcome = "raised") =>
        /\ pc = "summarised"
        /\ response.status = 200
        /\ response.body.content = "No sufficient feedback data available for this period."
        /\ ai_summaries =
              <<[doc_id |-> <<"weekly_summary">>,
                 doc |-> [range |-> "weekly", type |-> "feedback",
                          content |-> "No sufficient feedback data available for this period."]]>>

-----------------------------------------------------------------------------
(* C28: the views of one /analyze response *)

\* the sum of the counts of a food summary
SummaryTotal(summary_) ==
    SumOf([k \in DOMAIN summary_ |-> summary_[k][2]], DOMAIN summary_)

\* C28: in every successful /analyze response the number of food items is
\* the same in all views, waste_analysis.food_items_detected =
\* len(food_details) = sum of the counts of food_summary =
\* admin_insight.total_items_remaining, and it is the number of detections
\* whose label is not "plate" in any letter case; no such plate detection is
\* listed in food_summary or food_details or adds to total_food_area_px.
C28_ViewsAgree ==
    (pc = "responded" /\ response.status = 200) =>
        LET body == response.body
        IN  /\ body.waste_analysis.food_items_detected = Cardinality(FoodIdx)
            /\ Len(body.food_details) = Cardinality(FoodIdx)
            /\ SummaryTotal(body.food_summary) = Cardinality(FoodIdx)
            /\ body.admin_insight.total_items_remaining = Cardinality(FoodIdx)
            /\ \A k \in DOMAIN body.food_summary :
                  ~IsPlateLabel(body.food_summary[k][1])
            /\ \A k \in DOMAIN body.food_details :
                  ~IsPlateLabel(body.food_details[k].item)
            /\ body.waste_analysis.total_food_area_px = FoodAreaSum

\* C28's case: a photo with two plate detections spelled differently and one
\* food item was answered
C28_Witness ==
    /\ pc = "responded"
    /\ response.status = 200
    /\ \E i, j \in PlateIdx :
          detections[i].class_name = "Plate" /\ detections[j].class_name = "PLATE"
    /\ Cardinality(FoodIdx) = 1
    /\ response.body.waste_analysis.total_food_area_px > 0

-----------------------------------------------------------------------------
(* C29: no plate area *)

\* C29: analyze_plate_coverage divides by no zero: it returns for every
\* input, and when the plate area is not positive (the plate box that is
\* used has no area, or there is no plate and the image has a zero
\* dimension) it returns coverage_percent 0 and waste_level NONE whatever
\* the food detections.
C29_NoPlateArea ==
    /\ pc = "coverage" =>
          analyze_plate_coverage(detections, image_shape).coverage_percent
             \in 0..1000
    /\ (Analysed /\ ExpectedPlateArea.n <= 0) =>
          /\ waste_analysis.coverage_percent = 0
          /\ waste_analysis.waste_level = "NONE"
          /\ waste_analysis.food_items_detected = Cardinality(FoodIdx)

\* C29's cases: a plate box of zero width under a food box larger than any
\* plate; no plate on an image of zero height, with food detected
C29_Witness ==
    /\ Analysed
    /\ waste_analysis.coverage_percent = 0
    /\ FoodAreaSum > 0
    /\ \/ /\ PlateIdx # {}
          /\ BoxArea(LastPlate) = 0
          /\ \E i \in FoodIdx : BoxArea(i) = 90000
       \/ /\ PlateIdx = {}
          /\ image_shape[1] = 0

-----------------------------------------------------------------------------
(* C30: one QR per meal and day *)

\* the successful answers for a meal and a day
Handed(meal_type, date_str) ==
    { r \in qr_responses :
        /\ r.answer.status = 200
        /\ r.answer.body.success
        /\ r.answer.body.meal_type = <<meal_type>>
        /\ r.answer.body.date = <<date_str>> }

\* C30: for a meal and a day for which no generate call with force_refresh
\* has run, every successful answer of /qr/generate and /qr/{meal_type}, in
\* whatever order the calls ran and whatever time passed between them,
\* carries the same qr_data, and it is the qrData of the document stored in
\* adminAttendanceQR for that meal and day, which names that meal and day.
C30_OneQRPerMealAndDay ==
    \A meal_type \in {"breakfast", "lunch", "dinner"}, date_str \in 0..qr_today :
        (\A r \in Handed(meal_type, date_str) : ~r.force_refresh) =>
            /\ \A r \in Handed(meal_type, date_str) :
                  /\ <<meal_type, date_str>> \in DOMAIN qr_docs
                  /\ r.answer.body.qr_data =
                        <<qr_docs[<<meal_type, date_str>>].qrData>>
                  /\ r.answer.body.qr_data[1][2] = <<"mealType", meal_type>>
                  /\ r.answer.body.qr_data[1][3] = <<"date", date_str>>
            /\ \A r, q \in Handed(meal_type, date_str) :
                  r.answer.body.qr_data = q.answer.body.qr_data

\* C30's case: two generate calls without force_refresh and a get call for
\* lunch ran on one day, milliseconds apart, and all got the QR generated
\* at the first
C30_Witness ==
    /\ qr_calls = 3
    /\ qr_clock = 2
    /\ \E first, second, third \in Handed("lunch", qr_today) :
          /\ first.call = 1 /\ first.endpoint = "generate" /\ ~first.force_refresh
          /\ second.call = 2 /\ second.endpoint = "generate" /\ ~second.force_refresh
          /\ third.call = 3 /\ third.endpoint = "get"
          /\ first.answer.body.qr_data[1][4] = <<"qrId", <<"lunch", qr_today, 0>>>>
          /\ second.answer = first.answer
          /\ third.answer = first.answer

====
